---- MODULE Spec2Model ----
(***************************************************************************)
(* Policy-alignment scoring of twfy-votes.                                 *)
(*                                                                         *)
(* A VoteDistribution holds twelve counts.  The counts are floats in the   *)
(* program (comparison counts are per-division fractions); here a count is *)
(* an integer number of 1/Unit-ths of a vote, so that "one vote" is Unit   *)
(* and fractions with denominator Unit are covered.  Scores are kept as    *)
(* exact fractions in lowest terms: the rounding of float arithmetic is    *)
(* not modelled.                                                           *)
(***************************************************************************)
EXTENDS Integers, FiniteSets

VARIABLES dist, strength_meaning, distance_score, similarity_score, pc, label

\* link: a PersonPolicyLink; motion: a division and its motion texts;
\* align: one run of the fast and of the slow alignment computation
VARIABLES link, motion, align

\* report: a PolicyReport being built; duck_core: the database manager and
\* the reload tasks; store: the policy files and the stored voting records
VARIABLES report, duck_core, store

vars == <<dist, strength_meaning, distance_score, similarity_score, pc, label, link, motion, align, report, duck_core, store>>

(* ---- the parts of the state a specification does not use ---- *)

\* no PersonPolicyLink has been built
NoLink == [pc |-> "none"]

\* no division is being analysed
NoMotion == [pc |-> "none"]

\* no alignment computation is running
NoAlign == [pc |-> "none"]

\* no VoteDistribution is being scored
NoScoring ==
    /\ dist = [f \in {} |-> 0]
    /\ strength_meaning = "none"
    /\ distance_score = [num |-> 0, den |-> 1]
    /\ similarity_score = [num |-> 0, den |-> 1]
    /\ pc = "none"
    /\ label = "unread"

scoreVars == <<dist, strength_meaning, distance_score, similarity_score, pc, label>>

\* no PolicyReport is being built
NoReport == [pc |-> "none"]

\* no database reload is modelled
NoReload == [pc |-> "none"]

\* no voting records are being generated
NoStore == [pc |-> "none"]

NoService ==
    /\ report = NoReport
    /\ duck_core = NoReload
    /\ store = NoStore

serviceVars == <<report, duck_core, store>>

(* ---- bounds of the model ---- *)

\* one vote, in count units
Unit == 2

\* largest sum of the twelve counts of a distribution, in count units
MaxTotal == 6

\* largest amount added to, or moved between, count fields by a relational property
MaxAdd == 2

(* ---- exact fractions standing for the program's floats ---- *)

RECURSIVE GCD(_, _)
GCD(a, b) == IF b = 0 THEN a ELSE GCD(b, a % b)

Abs(n) == IF n < 0 THEN 0 - n ELSE n

\* the float n/d (d > 0), in lowest terms
Frac(n, d) ==
    LET g == GCD(Abs(n), d)
    IN  [num |-> n \div g, den |-> d \div g]

MinusOne == [num |-> 0 - 1, den |-> 1]

Zero == [num |-> 0, den |-> 1]

\* a <= b on fractions
FracLE(a, b) == a.num * b.den <= b.num * a.den

\* a < b on fractions
FracLT(a, b) == a.num * b.den < b.num * a.den

\* 1.0 - a
OneMinus(a) == Frac(a.den - a.num, a.den)

(* ---- outcome of a call of a scoring function ---- *)

\* the call returned the float n/d
Returned(n, d) == [raised |-> FALSE, value |-> Frac(n, d)]

\* the call returned the int -1
ReturnedMinusOne == [raised |-> FALSE, value |-> MinusOne]

\* the call raised ZeroDivisionError (float division by zero)
ZeroDivisionError == [raised |-> TRUE, value |-> Zero]

\* points / avaliable_points, as Python evaluates it
Divide(points, avaliable_points) ==
    IF avaliable_points = 0 THEN ZeroDivisionError
    ELSE Returned(points, avaliable_points)

(* ---- the scoring functions ---- *)

(* variants of the classic score with one slip each *)

\* slip: a strong vote weighs what a normal vote weighs
public_whip_score_difference_StrongAsNormal(num_votes_same, num_strong_votes_same, num_votes_different, num_strong_votes_different, num_votes_absent, num_strong_votes_absent, num_strong_votes_abstain, num_votes_abstain) ==
    LET num_votes_absent_or_abstain == num_votes_absent + num_votes_abstain
        num_strong_votes_absent_or_abstain ==
            num_strong_votes_absent + num_strong_votes_abstain
        normal_weight == 10
        strong_weight == 10
        absence_weight == 1
        absence_total_weight == 2
        points ==
              normal_weight * num_votes_different
            + strong_weight * num_strong_votes_different
            + absence_weight * num_votes_absent_or_abstain
            + (strong_weight \div 2) * num_strong_votes_absent_or_abstain
        avaliable_points ==
              normal_weight * num_votes_same
            + normal_weight * num_votes_different
            + strong_weight * num_strong_votes_same
            + strong_weight * num_strong_votes_different
            + strong_weight * num_strong_votes_absent_or_abstain
            + absence_total_weight * num_votes_absent_or_abstain
    IN  IF avaliable_points = 0 THEN ReturnedMinusOne
        ELSE Divide(points, avaliable_points)

\* slip: abstentions are not added to the absences
public_whip_score_difference_AbstainDropped(num_votes_same, num_strong_votes_same, num_votes_different, num_strong_votes_different, num_votes_absent, num_strong_votes_absent, num_strong_votes_abstain, num_votes_abstain) ==
    LET num_votes_absent_or_abstain == num_votes_absent
        num_strong_votes_absent_or_abstain ==
            num_strong_votes_absent
        normal_weight == 10
        strong_weight == 50
        absence_weight == 1
        absence_total_weight == 2
        points ==
              normal_weight * num_votes_different
            + strong_weight * num_strong_votes_different
            + absence_weight * num_votes_absent_or_abstain
            + (strong_weight \div 2) * num_strong_votes_absent_or_abstain
        avaliable_points ==
              normal_weight * num_votes_same
            + normal_weight * num_votes_different
            + strong_weight * num_strong_votes_same
            + strong_weight * num_strong_votes_different
            + strong_weight * num_strong_votes_absent_or_abstain
            + absence_total_weight * num_votes_absent_or_abstain
    IN  IF avaliable_points = 0 THEN ReturnedMinusOne
        ELSE Divide(points, avaliable_points)

\* slip: the points of a normal absence and the points it makes available are swapped
public_whip_score_difference_AbsenceSwapped(num_votes_same, num_strong_votes_same, num_votes_different, num_strong_votes_different, num_votes_absent, num_strong_votes_absent, num_strong_votes_abstain, num_votes_abstain) ==
    LET num_votes_absent_or_abstain == num_votes_absent + num_votes_abstain
        num_strong_votes_absent_or_abstain ==
            num_strong_votes_absent + num_strong_votes_abstain
        normal_weight == 10
        strong_weight == 50
        absence_weight == 2
        absence_total_weight == 1
        points ==
              normal_weight * num_votes_different
            + strong_weight * num_strong_votes_different
            + absence_weight * num_votes_absent_or_abstain
            + (strong_weight \div 2) * num_strong_votes_absent_or_abstain
        avaliable_points ==
              normal_weight * num_votes_same
            + normal_weight * num_votes_different
            + strong_weight * num_strong_votes_same
            + strong_weight * num_strong_votes_different
            + strong_weight * num_strong_votes_absent_or_abstain
            + absence_total_weight * num_votes_absent_or_abstain
    IN  IF avaliable_points = 0 THEN ReturnedMinusOne
        ELSE Divide(points, avaliable_points)

public_whip_score_difference(num_votes_same, num_strong_votes_same, num_votes_different, num_strong_votes_different, num_votes_absent, num_strong_votes_absent, num_strong_votes_abstain, num_votes_abstain) ==
    LET \* treat abstentions as absences
        num_votes_absent_or_abstain == num_votes_absent + num_votes_abstain
        num_strong_votes_absent_or_abstain ==
            num_strong_votes_absent + num_strong_votes_abstain
        normal_weight == 10
        strong_weight == 50
        absence_weight == 1
        absence_total_weight == 2
        points ==
              normal_weight * num_votes_different
            + strong_weight * num_strong_votes_different
            + absence_weight * num_votes_absent_or_abstain
            + (strong_weight \div 2) * num_strong_votes_absent_or_abstain
        avaliable_points ==
              normal_weight * num_votes_same
            + normal_weight * num_votes_different
            + strong_weight * num_strong_votes_same
            + strong_weight * num_strong_votes_different
            + strong_weight * num_strong_votes_absent_or_abstain
            + absence_total_weight * num_votes_absent_or_abstain
    IN  IF avaliable_points = 0 THEN ReturnedMinusOne
        ELSE Divide(points, avaliable_points)

(* variants of the simplified score with one slip each *)

\* slip: a normal vote is worth points
simplified_score_difference_WeakCounts(num_votes_same, num_strong_votes_same, num_votes_different, num_strong_votes_different, num_votes_absent, num_strong_votes_absent, num_strong_votes_abstain, num_votes_abstain) ==
    LET normal_weight == 2
        strong_weight == 10
        abstain_weight == normal_weight \div 2
        strong_abstain_weight == strong_weight \div 2
        points ==
              normal_weight * num_votes_different
            + strong_weight * num_strong_votes_different
            + abstain_weight * num_votes_abstain
            + strong_abstain_weight * num_strong_votes_abstain
        avaliable_points ==
              normal_weight * num_votes_same
            + normal_weight * num_votes_different
            + strong_weight * num_strong_votes_same
            + strong_weight * num_strong_votes_different
            + abstain_weight * num_votes_abstain
            + strong_abstain_weight * num_strong_votes_abstain
    IN  Divide(points, avaliable_points)

\* slip: the points count the strong votes in line with the policy
simplified_score_difference_SamePoints(num_votes_same, num_strong_votes_same, num_votes_different, num_strong_votes_different, num_votes_absent, num_strong_votes_absent, num_strong_votes_abstain, num_votes_abstain) ==
    LET normal_weight == 0
        strong_weight == 10
        abstain_weight == normal_weight \div 2
        strong_abstain_weight == strong_weight \div 2
        points ==
              normal_weight * num_votes_different
            + strong_weight * num_strong_votes_same
            + abstain_weight * num_votes_abstain
            + strong_abstain_weight * num_strong_votes_abstain
        avaliable_points ==
              normal_weight * num_votes_same
            + normal_weight * num_votes_different
            + strong_weight * num_strong_votes_same
            + strong_weight * num_strong_votes_different
            + abstain_weight * num_votes_abstain
            + strong_abstain_weight * num_strong_votes_abstain
    IN  Divide(points, avaliable_points)

simplified_score_difference(num_votes_same, num_strong_votes_same, num_votes_different, num_strong_votes_different, num_votes_absent, num_strong_votes_absent, num_strong_votes_abstain, num_votes_abstain) ==
    LET normal_weight == 0
        strong_weight == 10
        abstain_weight == normal_weight \div 2
        strong_abstain_weight == strong_weight \div 2
        absence_weight == 0
        absence_total_weight == 0
        strong_absence_weight == 0
        strong_absence_total_weight == 0
        points ==
              normal_weight * num_votes_different
            + strong_weight * num_strong_votes_different
            + absence_weight * num_votes_absent
            + strong_absence_weight * num_strong_votes_absent
            + abstain_weight * num_votes_abstain
            + strong_abstain_weight * num_strong_votes_abstain
        avaliable_points ==
              normal_weight * num_votes_same
            + normal_weight * num_votes_different
            + strong_weight * num_strong_votes_same
            + strong_weight * num_strong_votes_different
            + absence_total_weight * num_votes_absent
            + strong_absence_total_weight * num_strong_votes_absent
            + abstain_weight * num_votes_abstain
            + strong_abstain_weight * num_strong_votes_abstain
    IN  Divide(points, avaliable_points)

\* ScoreFloatPair(weak=..., strong=...)
ScoreFloatPair(weak, strong) == [weak |-> weak, strong |-> strong]

\* PublicWhipScore.score: agreements are folded into the same/different
\* counts at full vote weight, then the classic score is taken
PublicWhipScore(votes_same, votes_different, votes_absent, votes_abstain, agreements_same, agreements_different) ==
    public_whip_score_difference(
        votes_same.weak + agreements_same.weak,
        votes_same.strong + agreements_same.strong,
        votes_different.weak + agreements_different.weak,
        votes_different.strong + agreements_different.strong,
        votes_absent.weak,
        votes_absent.strong,
        votes_abstain.strong,
        votes_abstain.weak)

\* SimplifiedScore.score: an agreement is scored as a vote of its strength
SimplifiedScore(votes_same, votes_different, votes_absent, votes_abstain, agreements_same, agreements_different) ==
    simplified_score_difference(
        votes_same.weak + agreements_same.weak,
        votes_same.strong + agreements_same.strong,
        votes_different.weak + agreements_different.weak,
        votes_different.strong + agreements_different.strong,
        votes_absent.weak,
        votes_absent.strong,
        votes_abstain.strong,
        votes_abstain.weak)

(* ---- VoteDistribution ---- *)

VoteFields ==
    {"num_votes_same", "num_strong_votes_same",
     "num_votes_different", "num_strong_votes_different",
     "num_votes_absent", "num_strong_votes_absent",
     "num_votes_abstain", "num_strong_votes_abstain"}

AgreementFields ==
    {"num_agreements_same", "num_strong_agreements_same",
     "num_agreements_different", "num_strong_agreements_different"}

Fields == VoteFields \cup AgreementFields

StrengthMeaning == {"classic", "simplified"}

\* VoteDistribution.total_votes: the agreements are not part of it
total_votes(d) ==
      d.num_votes_same
    + d.num_votes_different
    + d.num_votes_absent
    + d.num_strong_votes_same
    + d.num_strong_votes_different
    + d.num_strong_votes_absent
    + d.num_votes_abstain
    + d.num_strong_votes_abstain

\* slip: the strong half of both agreement pairs is read from the weak field
score_against_function_WeakAgreements(d, score_cls) ==
    LET votes_same ==
            ScoreFloatPair(d.num_votes_same, d.num_strong_votes_same)
        votes_different ==
            ScoreFloatPair(d.num_votes_different, d.num_strong_votes_different)
        votes_absent ==
            ScoreFloatPair(d.num_votes_absent, d.num_strong_votes_absent)
        votes_abstain ==
            ScoreFloatPair(d.num_votes_abstain, d.num_strong_votes_abstain)
        agreements_same ==
            ScoreFloatPair(d.num_agreements_same, d.num_agreements_same)
        agreements_different ==
            ScoreFloatPair(d.num_agreements_different, d.num_agreements_different)
    IN  IF score_cls = "PublicWhipScore"
        THEN PublicWhipScore(votes_same, votes_different, votes_absent,
                             votes_abstain, agreements_same, agreements_different)
        ELSE SimplifiedScore(votes_same, votes_different, votes_absent,
                             votes_abstain, agreements_same, agreements_different)

\* VoteDistribution.score_against_function
score_against_function(d, score_cls) ==
    LET votes_same ==
            ScoreFloatPair(d.num_votes_same, d.num_strong_votes_same)
        votes_different ==
            ScoreFloatPair(d.num_votes_different, d.num_strong_votes_different)
        votes_absent ==
            ScoreFloatPair(d.num_votes_absent, d.num_strong_votes_absent)
        votes_abstain ==
            ScoreFloatPair(d.num_votes_abstain, d.num_strong_votes_abstain)
        agreements_same ==
            ScoreFloatPair(d.num_agreements_same, d.num_strong_agreements_same)
        agreements_different ==
            ScoreFloatPair(d.num_agreements_different,
                           d.num_strong_agreements_different)
    IN  IF score_cls = "PublicWhipScore"
        THEN PublicWhipScore(votes_same, votes_different, votes_absent,
                             votes_abstain, agreements_same, agreements_different)
        ELSE SimplifiedScore(votes_same, votes_different, votes_absent,
                             votes_abstain, agreements_same, agreements_different)

\* the scoring class VoteDistribution.score picks for a strength meaning
ScoreClass(meaning) ==
    IF meaning = "classic" THEN "PublicWhipScore" ELSE "SimplifiedScore"

\* VoteDistribution.verbose_score
verbose_score(s) ==
    CASE FracLE(Zero, s) /\ FracLE(s, Frac(5, 100)) -> "Consistently voted for"
      [] FracLT(Frac(5, 100), s) /\ FracLE(s, Frac(15, 100)) -> "Almost always voted for"
      [] FracLT(Frac(15, 100), s) /\ FracLE(s, Frac(4, 10)) -> "Generally voted for"
      [] FracLT(Frac(4, 10), s) /\ FracLE(s, Frac(6, 10)) -> "Voted a mixture of for and against"
      [] FracLT(Frac(6, 10), s) /\ FracLE(s, Frac(85, 100)) -> "Generally voted against"
      [] FracLT(Frac(85, 100), s) /\ FracLE(s, Frac(95, 100)) -> "Almost always voted against"
      [] FracLT(Frac(95, 100), s) /\ FracLE(s, Frac(1, 1)) -> "Consistently voted against"
      [] s = MinusOne -> "No data available"
      [] OTHER -> "ValueError"

\* the sum of all twelve counts
AllCounts(d) ==
    total_votes(d) + d.num_agreements_same + d.num_strong_agreements_same
    + d.num_agreements_different + d.num_strong_agreements_different

(* ---- the state machine ---- *)

\* VoteDistribution(): every count 0.0, both scores 0.0
Init ==
    /\ dist = [f \in Fields |-> 0]
    /\ strength_meaning = "none"
    /\ distance_score = Zero
    /\ similarity_score = Zero
    /\ pc = "new"
    /\ label = "unread"
    /\ link = NoLink
    /\ NoService
    /\ motion = NoMotion
    /\ align = NoAlign

\* a count field of the distribution under construction receives one more
\* count unit (the sum over a (policy, division) contribution)
AddCount(f) ==
    /\ pc = "new"
    /\ AllCounts(dist) < MaxTotal
    /\ dist' = [dist EXCEPT ![f] = @ + 1]
    /\ UNCHANGED <<strength_meaning, distance_score, similarity_score, pc, label>>
    /\ UNCHANGED <<link, motion, align, serviceVars>>

\* VoteDistribution.score(strength_meaning)
Score(meaning) ==
    /\ pc \in {"new", "scored"}
    /\ LET score == score_against_function(dist, ScoreClass(meaning))
       IN  IF score.raised
           THEN /\ pc' = "raised"
                /\ UNCHANGED <<distance_score, similarity_score>>
           ELSE /\ pc' = "scored"
                /\ distance_score' = score.value
                /\ similarity_score' =
                       IF score.value = MinusOne THEN MinusOne
                       ELSE OneMinus(score.value)
    /\ strength_meaning' = meaning
    /\ label' = "unread"
    /\ UNCHANGED dist
    /\ UNCHANGED <<link, motion, align, serviceVars>>

\* reading the computed field verbose_score
VerboseScore ==
    /\ label = "unread"
    /\ label' = verbose_score(distance_score)
    /\ UNCHANGED <<dist, strength_meaning, distance_score, similarity_score, pc>>
    /\ UNCHANGED <<link, motion, align, serviceVars>>

Next ==
    \/ \E f \in Fields : AddCount(f)
    \/ \E meaning \in StrengthMeaning : Score(meaning)
    \/ VerboseScore

Spec == Init /\ [][Next]_vars

(* ---- vocabulary of the properties ---- *)

\* VoteDistribution.score has been called on the distribution
Attempted == pc \in {"scored", "raised"}

ScoredWith(meaning) == pc = "scored" /\ strength_meaning = meaning

\* every count outside fs is zero
OnlyNonzero(fs) == \A f \in Fields \ fs : dist[f] = 0

NoAgreements == \A f \in AgreementFields : dist[f] = 0

Half == [num |-> 1, den |-> 2]

\* the score of distribution d under a strength meaning
ScoreOf(d, meaning) == score_against_function(d, ScoreClass(meaning))

\* d with n more count units in field f
Plus(d, f, n) == [d EXCEPT ![f] = @ + n]

\* d with n count units moved from field f to field g
Moved(d, f, g, n) == [d EXCEPT ![f] = @ - n, ![g] = @ + n]

(* ---- C1 ---- *)

\* C1: for counts with available > 0 (no agreements), the classic Public Whip
\* score is points/available with
\*   points    = 10*different.weak + 50*different.strong
\*               + 1*(absent.weak + abstain.weak) + 25*(absent.strong + abstain.strong)
\*   available = 10*(same.weak + different.weak) + 50*(same.strong + different.strong)
\*               + 50*(absent.strong + abstain.strong) + 2*(absent.weak + abstain.weak);
\* w weak same-votes and s strong different-votes alone give 50s/(10w+50s),
\* which is 50/60 for w = s = one vote.
C1_PublicWhipFormula ==
    (Attempted /\ strength_meaning = "classic" /\ NoAgreements) =>
        LET points ==
                  10 * dist.num_votes_different
                + 50 * dist.num_strong_votes_different
                + 1 * (dist.num_votes_absent + dist.num_votes_abstain)
                + 25 * (dist.num_strong_votes_absent + dist.num_strong_votes_abstain)
            available ==
                  10 * (dist.num_votes_same + dist.num_votes_different)
                + 50 * (dist.num_strong_votes_same + dist.num_strong_votes_different)
                + 50 * (dist.num_strong_votes_absent + dist.num_strong_votes_abstain)
                + 2 * (dist.num_votes_absent + dist.num_votes_abstain)
            w == dist.num_votes_same
            s == dist.num_strong_votes_different
        IN  /\ available > 0 =>
                /\ pc = "scored"
                /\ distance_score.num * available = points * distance_score.den
            /\ (OnlyNonzero({"num_votes_same", "num_strong_votes_different"}) /\ w + s > 0) =>
                /\ pc = "scored"
                /\ distance_score.num * (10 * w + 50 * s) = 50 * s * distance_score.den
            /\ (OnlyNonzero({"num_votes_same", "num_strong_votes_different"})
                    /\ w = Unit /\ s = Unit) =>
                distance_score = [num |-> 5, den |-> 6]

\* a classic score over same, different, absent and abstained votes of both strengths
C1_Witness ==
    /\ ScoredWith("classic")
    /\ NoAgreements
    /\ dist.num_votes_same > 0
    /\ dist.num_strong_votes_different > 0
    /\ dist.num_votes_absent > 0
    /\ dist.num_strong_votes_abstain > 0
    /\ FracLT(Zero, distance_score)
    /\ FracLT(distance_score, [num |-> 1, den |-> 1])

(* ---- C2 ---- *)

\* C2: whenever the available points are zero (simplified: no strong same,
\* strong different or strong abstain votes and no strong agreements, whatever
\* the weak and absent counts; classic: all counts zero), the scoring function
\* returns exactly -1 and raises nothing.
C2_ZeroAvailableReturnsMinusOne ==
    LET zero_available ==
            \/ /\ strength_meaning = "simplified"
               /\ dist.num_strong_votes_same = 0
               /\ dist.num_strong_votes_different = 0
               /\ dist.num_strong_votes_abstain = 0
               /\ dist.num_strong_agreements_same = 0
               /\ dist.num_strong_agreements_different = 0
            \/ /\ strength_meaning = "classic"
               /\ AllCounts(dist) = 0
    IN  (Attempted /\ zero_available) =>
            (pc = "scored" /\ distance_score = MinusOne /\ similarity_score = MinusOne)

(* ---- C3 ---- *)

C4_StrongAbstainOnlyHalf ==
    (Attempted
        /\ OnlyNonzero({"num_strong_votes_abstain"})
        /\ dist.num_strong_votes_abstain > 0) =>
        (pc = "scored" /\ distance_score = Half)

(* ---- C5 ---- *)

\* C5: when only strong same-votes s and strong different-votes d are nonzero
\* (s + d > 0), PublicWhipScore and SimplifiedScore both return exactly
\* d/(s+d): 0.5 when s = d, 0.25 when s = 3d, 0.75 when d = 3s.
C5_StrongVotesOnly ==
    LET s == dist.num_strong_votes_same
        d == dist.num_strong_votes_different
    IN  (Attempted
            /\ OnlyNonzero({"num_strong_votes_same", "num_strong_votes_different"})
            /\ s + d > 0) =>
            /\ pc = "scored"
            /\ distance_score.num * (s + d) = d * distance_score.den
            /\ s = d => distance_score = Half
            /\ s = 3 * d => distance_score = [num |-> 1, den |-> 4]
            /\ d = 3 * s => distance_score = [num |-> 3, den |-> 4]

\* three strong same-votes to one strong different-vote, simplified: 0.25
C5_Witness ==
    /\ ScoredWith("simplified")
    /\ OnlyNonzero({"num_strong_votes_same", "num_strong_votes_different"})
    /\ dist.num_strong_votes_same = 3 * dist.num_strong_votes_different
    /\ dist.num_strong_votes_different > 0
    /\ distance_score = [num |-> 1, den |-> 4]

(* ---- C6 ---- *)

\* the fields SimplifiedScore gives no weight: weak votes, weak agreements, absences
UnweightedFields ==
    {"num_votes_same", "num_votes_different", "num_votes_abstain",
     "num_agreements_same", "num_agreements_different",
     "num_votes_absent", "num_strong_votes_absent"}

\* C6: SimplifiedScore is unchanged by adding any quantity of weak votes (same,
\* different, abstain), weak agreements or absences (weak or strong) to a
\* distribution whose strong votes and strong agreements are held fixed and
\* give available > 0.
C6_SimplifiedIgnoresWeakAndAbsent ==
    ScoredWith("simplified") =>
        \A f \in UnweightedFields : \A n \in 1..MaxAdd :
            ScoreOf(Plus(dist, f, n), "simplified")
                = [raised |-> FALSE, value |-> distance_score]

\* a simplified score of a distribution that has weak votes, a weak agreement
\* and absences next to its strong votes
C6_Witness ==
    /\ ScoredWith("simplified")
    /\ dist.num_strong_votes_same > 0
    /\ dist.num_strong_votes_different > 0
    /\ dist.num_votes_different > 0
    /\ dist.num_votes_absent > 0
    /\ dist.num_strong_votes_absent > 0
    /\ dist.num_agreements_different > 0
    /\ distance_score = Half

(* ---- C7 ---- *)

\* C7: SimplifiedScore is unchanged when N strong same and/or N strong
\* different counts are moved from the votes fields to the corresponding
\* strong agreements fields, or back: a strong agreement is scored exactly
\* like a strong vote.
C7_StrongAgreementsLikeVotes ==
    ScoredWith("simplified") =>
        \A pair \in {<<"num_strong_votes_same", "num_strong_agreements_same">>,
                     <<"num_strong_agreements_same", "num_strong_votes_same">>,
                     <<"num_strong_votes_different", "num_strong_agreements_different">>,
                     <<"num_strong_agreements_different", "num_strong_votes_different">>} :
            \A n \in 1..MaxAdd :
                n <= dist[pair[1]] =>
                    ScoreOf(Moved(dist, pair[1], pair[2], n), "simplified")
                        = [raised |-> FALSE, value |-> distance_score]

\* a simplified score over strong votes and strong agreements together
C7_Witness ==
    /\ ScoredWith("simplified")
    /\ dist.num_strong_votes_same > 0
    /\ dist.num_strong_votes_different > 0
    /\ dist.num_strong_agreements_same > 0
    /\ dist.num_strong_agreements_different > 0
    /\ FracLT(Zero, distance_score)

(* ---- C8 ---- *)

\* C8: PublicWhipScore treats abstentions as absences: moving any amount
\* between votes_absent and votes_abstain of the same strength leaves the
\* score unchanged; one weak plus one strong absence, or one weak plus one
\* strong abstention, both give 26/52.
C8_AbstainIsAbsenceClassic ==
    ScoredWith("classic") =>
        /\ \A pair \in {<<"num_votes_absent", "num_votes_abstain">>,
                        <<"num_votes_abstain", "num_votes_absent">>,
                        <<"num_strong_votes_absent", "num_strong_votes_abstain">>,
                        <<"num_strong_votes_abstain", "num_strong_votes_absent">>} :
               \A n \in 1..MaxAdd :
                   n <= dist[pair[1]] =>
                       ScoreOf(Moved(dist, pair[1], pair[2], n), "classic")
                           = [raised |-> FALSE, value |-> distance_score]
        /\ \A fs \in {{"num_votes_absent", "num_strong_votes_absent"},
                      {"num_votes_abstain", "num_strong_votes_abstain"}} :
               (OnlyNonzero(fs) /\ \A f \in fs : dist[f] = Unit) =>
                   distance_score.num * 52 = 26 * distance_score.den

\* one weak and one strong abstention, scored the classic way
C8_Witness ==
    /\ ScoredWith("classic")
    /\ OnlyNonzero({"num_votes_abstain", "num_strong_votes_abstain"})
    /\ dist.num_votes_abstain = Unit
    /\ dist.num_strong_votes_abstain = Unit
    /\ distance_score = Half

(* ---- C9 ---- *)

MaxDen == 5

\* the distance scores of the two scored distributions of a link
DistanceScores ==
    {MinusOne} \cup UNION {{Frac(n, d) : n \in 0..d} : d \in 1..MaxDen}

\* abs(a - b)
FracAbsDiff(a, b) == Frac(Abs(a.num * b.den - b.num * a.den), a.den * b.den)

\* slip: the two thresholds are inclusive
significant_difference_Inclusive(own_score, other_score) ==
    IF FracLE(own_score, Frac(4, 10)) /\ FracLE(Frac(6, 10), other_score) THEN TRUE
    ELSE IF FracLE(Frac(6, 10), own_score) /\ FracLE(other_score, Frac(4, 10)) THEN TRUE
    ELSE FALSE

\* PersonPolicyLink.significant_difference
significant_difference(own_score, other_score) ==
    IF FracLT(own_score, Frac(4, 10)) /\ FracLT(Frac(6, 10), other_score) THEN TRUE
    ELSE IF FracLT(Frac(6, 10), own_score) /\ FracLT(other_score, Frac(4, 10)) THEN TRUE
    ELSE FALSE

\* PersonPolicyLink(own_distribution=..., other_distribution=...): two scored
\* distributions, comparison_score_difference 0.0
LinkInit ==
    /\ link \in {[pc |-> "new",
                  own_distance |-> own,
                  other_distance |-> other,
                  comparison_score_difference |-> Zero,
                  significant |-> "unread"] :
                     own \in DistanceScores, other \in DistanceScores}
    /\ NoScoring
    /\ motion = NoMotion
    /\ NoService
    /\ align = NoAlign

\* PersonPolicyLink.score
LinkScore ==
    /\ link.pc = "new"
    /\ link' = [link EXCEPT
                    !.pc = "scored",
                    !.comparison_score_difference =
                        FracAbsDiff(link.own_distance, link.other_distance)]
    /\ UNCHANGED <<scoreVars, motion, align, serviceVars>>

\* reading the computed field significant_difference
SignificantDifference ==
    /\ link.significant = "unread"
    /\ link' = [link EXCEPT
                    !.significant =
                        IF significant_difference(link.own_distance, link.other_distance)
                        THEN "True" ELSE "False"]
    /\ UNCHANGED <<scoreVars, motion, align, serviceVars>>

LinkNext ==
    \/ LinkScore
    \/ SignificantDifference

SpecLink == LinkInit /\ [][LinkNext]_vars

(* ---- C11 ---- *)

\* C11: significant_difference is True exactly when (own distance < 0.4 and
\* comparison distance > 0.6) or (own distance > 0.6 and comparison distance
\* < 0.4); a score equal to 0.4 or 0.6 on either side never makes a
\* difference significant.
C11_SignificantExactly ==
    link.significant # "unread" =>
        LET own == link.own_distance
            other == link.other_distance
            below(x) == 10 * x.num < 4 * x.den
            above(x) == 10 * x.num > 6 * x.den
            onThreshold(x) == 10 * x.num = 4 * x.den \/ 10 * x.num = 6 * x.den
        IN  /\ (link.significant = "True")
                <=> ((below(own) /\ above(other)) \/ (above(own) /\ below(other)))
            /\ (onThreshold(own) \/ onThreshold(other)) => link.significant = "False"

\* own distance exactly 0.4 against a comparison distance of 1: not significant
C11_Witness ==
    /\ link.significant = "False"
    /\ link.own_distance = [num |-> 2, den |-> 5]
    /\ link.other_distance = [num |-> 1, den |-> 1]

(* ======================================================================= *)
(* Motion texts.  A text is a sequence of words, markup left aside; the    *)
(* test `phrase in text` is taken word by word (a phrase that only occurs  *)
(* inside a longer word is not found).                                     *)
(* ======================================================================= *)

\* number of words of a word sequence
Len(seq) == IF seq = <<>> THEN 0 ELSE CHOOSE n \in 1..64 : DOMAIN seq = 1..n

\* the concatenation of two texts
Concat(a, b) == [i \in 1..(Len(a) + Len(b)) |-> IF i <= Len(a) THEN a[i] ELSE b[i - Len(a)]]

\* str.lower() on one word: the capitalised words of the texts below
LowerWord(w) ==
    CASE w = "House" -> "house"
      [] w = "Second" -> "second"
      [] w = "Reading" -> "reading"
      [] w = "Lords" -> "lords"
      [] w = "Standing" -> "standing"
      [] w = "Order" -> "order"
      [] w = "Orders" -> "orders"
      [] w = "Amendment" -> "amendment"
      [] w = "Government" -> "government"
      [] w = "Goverment" -> "goverment"
      [] w = "Believes" -> "believes"
      [] w = "Regrets" -> "regrets"
      [] w = "Opposition" -> "opposition"
      [] w = "Censures" -> "censures"
      [] w = "That" -> "that"
      [] w = "No." -> "no."
      [] OTHER -> w

\* str.lower()
lower(motion_text) == [i \in DOMAIN motion_text |-> LowerWord(motion_text[i])]

\* `phrase in search`
Contains(search, phrase) ==
    \E i \in 1..(Len(search) - Len(phrase) + 1) :
        \A j \in 1..Len(phrase) : search[i + j - 1] = phrase[j]

all_present(search, items) == \A x \in items : Contains(search, x)

any_present(search, items) == \E x \in items : Contains(search, x)

(* ---- the motion classifier ---- *)

\* the members of the VoteType enum: <<name, value>>
VoteType ==
    {<<"AMENDMENT", "amendment">>,
     <<"TEN_MINUTE_RULE", "ten_minute_rule">>,
     <<"LORDS_AMENDMENT", "lords_amendment">>,
     <<"FIRST_STAGE", "first_stage">>,
     <<"SECOND_STAGE", "second_stage">>,
     <<"COMMITEE_CLAUSE", "committee_clause">>,
     <<"SECOND_STAGE_COMMITTEE", "second_stage_committee">>,
     <<"THIRD_STAGE", "third_stage">>,
     <<"APPROVE_STATUTORY_INSTRUMENT", "approve_statutory_instrument">>,
     <<"ADJOURNMENT", "adjournment">>,
     <<"TIMETABLE_CHANGE", "timetable_change">>,
     <<"HUMBLE_ADDRESS", "humble_address">>,
     <<"GOVERNMENT_AGENDA", "government_agenda">>,
     <<"CONFIDENCE", "confidence">>,
     <<"STANDING_ORDER_CHANGE", "standing_order_change">>,
     <<"PRIVATE_SITTING", "private_sitting">>,
     <<"OTHER", "other">>}

\* the attribute access VoteType.<name>: a member, or AttributeError
VoteTypeMember(name) ==
    IF \E m \in VoteType : m[1] = name
    THEN [raised |-> FALSE, value |-> (CHOOSE m \in VoteType : m[1] = name)[2]]
    ELSE [raised |-> TRUE, value |-> "AttributeError"]

catagorise_motion(motion_text) ==
    LET l_motion == lower(motion_text)
    IN  IF all_present(l_motion, {<<"be", "approved">>, <<"laid", "before", "this", "house">>})
            THEN VoteTypeMember("APPROVE_STATUTORY_INSTRUMENT")
        ELSE IF all_present(l_motion, {<<"be", "revoked">>, <<"laid", "before", "this", "house">>})
            THEN VoteTypeMember("REVOKE_STATUTORY_INSTRUMENT")
        ELSE IF any_present(l_motion, {<<"makes", "provision", "as", "set", "out", "in", "this", "order">>})
            THEN VoteTypeMember("TIMETABLE_CHANGE")
        ELSE IF any_present(l_motion, {<<"following", "standing", "order", "be", "made">>, <<"orders", "be", "standing", "orders", "of", "the", "house">>})
            THEN VoteTypeMember("STANDING_ORDER_CHANGE")
        ELSE IF any_present(l_motion, {<<"first", "reading">>})
            THEN VoteTypeMember("FIRST_STAGE")
        ELSE IF any_present(l_motion, {<<"second", "reading">>, <<"read", "a", "second", "time">>}) /\ any_present(l_motion, {<<"clause">>})
            THEN VoteTypeMember("SECOND_STAGE_COMMITTEE")
        ELSE IF any_present(l_motion, {<<"clause", "stand", "part", "of", "the", "bill">>})
            THEN VoteTypeMember("COMMITEE_CLAUSE")
        ELSE IF any_present(l_motion, {<<"third", "reading">>, <<"read", "a", "third", "time">>, <<"read", "the", "third", "time">>})
            THEN VoteTypeMember("THIRD_STAGE")
        ELSE IF any_present(l_motion, {<<"second", "reading">>, <<"read", "a", "second", "time">>})
            THEN VoteTypeMember("SECOND_STAGE")
        ELSE IF all_present(l_motion, {<<"standing", "order">>, <<"23">>})
            THEN VoteTypeMember("TEN_MINUTE_RULE")
        ELSE IF any_present(l_motion, {<<"do", "adjourn", "until">>})
            THEN VoteTypeMember("ADJOURNMENT")
        ELSE IF any_present(l_motion, {<<"takes", "note", "of", "european", "union", "document">>, <<"takes", "note", "of", "european", "document">>, <<"takes", "note", "of", "draft", "european", "council", "decision">>}) \/ all_present(l_motion, {<<"takes", "note", "of", "regulation">>, <<"of", "the", "european", "parliament">>})
            THEN VoteTypeMember("EU_DOCUMENT_SCRUTINY")
        ELSE IF all_present(l_motion, {<<"amendment">>, <<"lords">>})
            THEN VoteTypeMember("LORDS_AMENDMENT")
        ELSE IF any_present(l_motion, {<<"gracious", "speech">>})
            THEN VoteTypeMember("GOVERNMENT_AGENDA")
        ELSE IF any_present(l_motion, {<<"amendment">>, <<"clause", "be", "added", "to", "the", "bill">>})
            THEN VoteTypeMember("AMENDMENT")
        ELSE IF any_present(l_motion, {<<"humble", "address", "be", "presented">>})
            THEN VoteTypeMember("HUMBLE_ADDRESS")
        ELSE IF any_present(l_motion, {<<"that", "the", "house", "sit", "in", "private">>})
            THEN VoteTypeMember("PRIVATE_SITTING")
        ELSE IF all_present(l_motion, {<<"confidence", "in">>, <<"government">>})
            THEN VoteTypeMember("CONFIDENCE")
        ELSE VoteTypeMember("OTHER")

\* most pieces a motion text is put together from
MaxFragments == 3

\* the pieces the motion texts are put together from
CatFragments ==
    {<<"be", "approved">>,
     <<"laid", "before", "this", "house">>,
     <<"laid", "before", "this", "House">>,
     <<"be", "revoked">>,
     <<"makes", "provision", "as", "set", "out", "in", "this", "order">>,
     <<"following", "standing", "order", "be", "made">>,
     <<"Orders", "be", "Standing", "Orders", "of", "the", "House">>,
     <<"first", "reading">>,
     <<"Second", "Reading">>,
     <<"read", "a", "second", "time">>,
     <<"clause">>,
     <<"clause", "stand", "part", "of", "the", "bill">>,
     <<"read", "the", "third", "time">>,
     <<"Standing", "Order", "No.", "23">>,
     <<"do", "adjourn", "until">>,
     <<"takes", "note", "of", "european", "document">>,
     <<"takes", "note", "of", "regulation">>,
     <<"of", "the", "european", "parliament">>,
     <<"Lords">>,
     <<"amendment">>,
     <<"gracious", "speech">>,
     <<"clause", "be", "added", "to", "the", "bill">>,
     <<"humble", "address", "be", "presented">>,
     <<"that", "the", "house", "sit", "in", "private">>,
     <<"confidence", "in">>,
     <<"government">>,
     <<"question", "put">>}

\* no function has been called on the motion text yet
Uncalled == [raised |-> FALSE, value |-> "uncalled"]

CatInit ==
    /\ motion = [pc |-> "text", text |-> <<>>, parts |-> 0, vote_type |-> Uncalled]
    /\ NoScoring
    /\ link = NoLink
    /\ NoService
    /\ align = NoAlign

\* the motion text gets one more piece
CatAppend(f) ==
    /\ motion.pc = "text"
    /\ motion.parts < MaxFragments
    /\ motion' = [motion EXCEPT !.text = Concat(@, f), !.parts = @ + 1]
    /\ UNCHANGED <<scoreVars, link, align, serviceVars>>

\* catagorise_motion(motion)
CatagoriseMotion ==
    /\ motion.pc = "text"
    /\ motion' = [motion EXCEPT !.pc = "catagorised",
                                !.vote_type = catagorise_motion(motion.text)]
    /\ UNCHANGED <<scoreVars, link, align, serviceVars>>

CatNext ==
    \/ \E f \in CatFragments : CatAppend(f)
    \/ CatagoriseMotion

SpecCatagorise == CatInit /\ [][CatNext]_vars

(* ---- the claims about catagorise_motion ---- *)

\* the phrase condition of each rule on a lower-cased text, in the rule order
RuleHolds(l) ==
    <<all_present(l, {<<"be", "approved">>, <<"laid", "before", "this", "house">>}),
      all_present(l, {<<"be", "revoked">>, <<"laid", "before", "this", "house">>}),
      any_present(l, {<<"makes", "provision", "as", "set", "out", "in", "this", "order">>}),
      any_present(l, {<<"following", "standing", "order", "be", "made">>, <<"orders", "be", "standing", "orders", "of", "the", "house">>}),
      any_present(l, {<<"first", "reading">>}),
      any_present(l, {<<"second", "reading">>, <<"read", "a", "second", "time">>}) /\ any_present(l, {<<"clause">>}),
      any_present(l, {<<"clause", "stand", "part", "of", "the", "bill">>}),
      any_present(l, {<<"third", "reading">>, <<"read", "a", "third", "time">>, <<"read", "the", "third", "time">>}),
      any_present(l, {<<"second", "reading">>, <<"read", "a", "second", "time">>}),
      all_present(l, {<<"standing", "order">>, <<"23">>}),
      any_present(l, {<<"do", "adjourn", "until">>}),
      any_present(l, {<<"takes", "note", "of", "european", "union", "document">>, <<"takes", "note", "of", "european", "document">>, <<"takes", "note", "of", "draft", "european", "council", "decision">>}) \/ all_present(l, {<<"takes", "note", "of", "regulation">>, <<"of", "the", "european", "parliament">>}),
      all_present(l, {<<"amendment">>, <<"lords">>}),
      any_present(l, {<<"gracious", "speech">>}),
      any_present(l, {<<"amendment">>, <<"clause", "be", "added", "to", "the", "bill">>}),
      any_present(l, {<<"humble", "address", "be", "presented">>}),
      any_present(l, {<<"that", "the", "house", "sit", "in", "private">>}),
      all_present(l, {<<"confidence", "in">>, <<"government">>})>>

\* the vote type each rule stands for, in the rule order
RuleType ==
    <<"approve_statutory_instrument",
      "revoke_statutory_instrument",
      "timetable_change",
      "standing_order_change",
      "first_stage",
      "second_stage_committee",
      "committee_clause",
      "third_stage",
      "second_stage",
      "ten_minute_rule",
      "adjournment",
      "eu_document_scrutiny",
      "lords_amendment",
      "government_agenda",
      "amendment",
      "humble_address",
      "private_sitting",
      "confidence">>

Rules == 1..18

\* the rule that wins on a lower-cased text: the first one whose condition holds
FirstRule(l) == CHOOSE i \in Rules : RuleHolds(l)[i] /\ \A k \in 1..(i - 1) : ~RuleHolds(l)[k]

NoRuleHolds(l) == \A i \in Rules : ~RuleHolds(l)[i]

Catagorised == motion.pc = "catagorised"

\* C12: catagorise_motion returns the vote type of the first rule, in the
\* rule order, whose phrase condition holds on the lower-cased text; a text
\* with "be approved" and "laid before this house" in any letter case is
\* approve_statutory_instrument whatever later rule it also matches, and a
\* text matching the standing-order-change rule (and no earlier rule) is
\* standing_order_change even with "amendment" and "second reading" in it.
C12_FirstRuleWins ==
    Catagorised =>
        LET l == lower(motion.text)
        IN  /\ ~NoRuleHolds(l) =>
                motion.vote_type = [raised |-> FALSE, value |-> RuleType[FirstRule(l)]]
            /\ RuleHolds(l)[1] =>
                motion.vote_type = [raised |-> FALSE, value |-> "approve_statutory_instrument"]
            /\ (RuleHolds(l)[4] /\ \A k \in 1..3 : ~RuleHolds(l)[k]) =>
                motion.vote_type = [raised |-> FALSE, value |-> "standing_order_change"]

\* C13: for every text catagorise_motion returns a member of the VoteType
\* enum and never raises; when no rule's condition holds it returns other.
C13_AlwaysAVoteType ==
    Catagorised =>
        /\ ~motion.vote_type.raised
        /\ \E m \in VoteType : m[2] = motion.vote_type.value
        /\ NoRuleHolds(lower(motion.text)) => motion.vote_type.value = "other"


(* ======================================================================= *)
(* is_nonaction_vote                                                       *)
(* ======================================================================= *)

non_action_phrases ==
    <<<<"believes">>,
      <<"regrets">>,
      <<"notes", "with", "approval">>,
      <<"expressed", "approval">>,
      <<"welcomes">>,
      <<"is", "concerned">>,
      <<"calls", "on", "the">>,
      <<"recognises">>,
      <<"takes", "note">>,
      <<"agrees", "with", "the", "goverment's", "decision">>>>

action_phrases ==
    <<<<"orders", "that">>,
      <<"requires", "the", "Goverment">>,
      <<"censures">>,
      <<"declines", "to", "give", "a", "Second", "Reading">>>>

is_nonaction_vote(motion_text) ==
    LET reduced_text == lower(motion_text)
        counted == Cardinality({i \in DOMAIN non_action_phrases : Contains(reduced_text, non_action_phrases[i])})
        score == IF \E i \in DOMAIN action_phrases : Contains(reduced_text, action_phrases[i])
                 THEN 0
                 ELSE counted
    IN  score > 0

\* the pieces the texts given to is_nonaction_vote are put together from
NonactionFragments ==
    {<<"believes">>,
     <<"regrets">>,
     <<"notes", "with", "approval">>,
     <<"expressed", "approval">>,
     <<"welcomes">>,
     <<"is", "concerned">>,
     <<"calls", "on", "the">>,
     <<"recognises">>,
     <<"takes", "note">>,
     <<"agrees", "with", "the", "goverment's", "decision">>,
     <<"orders", "that">>,
     <<"requires", "the", "Goverment">>,
     <<"censures">>,
     <<"declines", "to", "give", "a", "Second", "Reading">>,
     <<"requires", "the", "goverment">>,
     <<"declines", "to", "give", "a", "second", "reading">>,
     <<"Believes">>,
     <<"question", "put">>}

NonactionInit ==
    /\ motion = [pc |-> "text", text |-> <<>>, parts |-> 0, nonaction |-> FALSE]
    /\ NoScoring
    /\ link = NoLink
    /\ NoService
    /\ align = NoAlign

\* the text gets one more piece
NonactionAppend(f) ==
    /\ motion.pc = "text"
    /\ motion.parts < MaxFragments
    /\ motion' = [motion EXCEPT !.text = Concat(@, f), !.parts = @ + 1]
    /\ UNCHANGED <<scoreVars, link, align, serviceVars>>

\* is_nonaction_vote(motion_text)
IsNonactionVote ==
    /\ motion.pc = "text"
    /\ motion' = [motion EXCEPT !.pc = "called", !.nonaction = is_nonaction_vote(motion.text)]
    /\ UNCHANGED <<scoreVars, link, align, serviceVars>>

NonactionNext ==
    \/ \E f \in NonactionFragments : NonactionAppend(f)
    \/ IsNonactionVote

SpecNonaction == NonactionInit /\ [][NonactionNext]_vars

\* C14: is_nonaction_vote returns False for every text that contains one of
\* the action phrases, however many non-action phrases it also contains.
C14_ActionPhraseGivesFalse ==
    (motion.pc = "called" /\ \E i \in DOMAIN action_phrases : Contains(motion.text, action_phrases[i]))
        => motion.nonaction = FALSE

(* ======================================================================= *)
(* DivisionInfo.motion_uses_powers                                         *)
(* ======================================================================= *)

\* a motion with fewer words than this is poor quality
PoorQualityWords == 20

\* the length of the filler that makes a motion text long
PadWords == 19

\* the absent vote_motion_analysis
None == [vote_type |-> "None"]

\* the tags of a motion text; a tag stands between two words or at an end
Markup == {"<p>", "</p>"}

RECURSIVE get_text(_)
\* BeautifulSoup(...).get_text(): the text without its tags
get_text(html) ==
    IF html = <<>> THEN <<>>
    ELSE LET rest == get_text([i \in 1..(Len(html) - 1) |-> html[i + 1]])
         IN  IF html[1] \in Markup THEN rest ELSE Concat(<<html[1]>>, rest)

motion_text_only(division) == get_text(division.motion)

\* len(text.split(" ")): the empty text splits into one empty word
SplitLen(text) == IF text = <<>> THEN 1 ELSE Len(text)

poor_quality_motion_text(division) == SplitLen(motion_text_only(division)) < PoorQualityWords

PowersAnalysis == {"uses_powers", "does_not_use_powers", "insufficent_info"}

\* slip: the government agenda is left out of the types that defer to the text
VoteMotionAnalysis_motion_uses_powers_AgendaPresumed(vma) ==
    IF vma.vote_type \in {VoteTypeMember("ADJOURNMENT").value,
                          VoteTypeMember("OTHER").value}
    THEN ~is_nonaction_vote(vma.full_motion_speech)
    ELSE TRUE

VoteMotionAnalysis_motion_uses_powers(vma) ==
    IF vma.vote_type \in {VoteTypeMember("ADJOURNMENT").value,
                          VoteTypeMember("OTHER").value,
                          VoteTypeMember("GOVERNMENT_AGENDA").value}
    THEN ~is_nonaction_vote(vma.full_motion_speech)
    ELSE TRUE

\* slip: a poor motion without a manual motion that is not non-action is
\* taken to use powers
DivisionInfo_motion_uses_powers_PoorAsserts(division) ==
    IF division.vote_motion_analysis # None
    THEN LET result0 == IF VoteMotionAnalysis_motion_uses_powers(division.vote_motion_analysis)
                        THEN "uses_powers"
                        ELSE "does_not_use_powers"
         IN  IF division.vote_motion_analysis.vote_type = VoteTypeMember("AMENDMENT").value
             THEN IF division.manual_motion # <<>> /\ ~poor_quality_motion_text(division)
                  THEN IF is_nonaction_vote(division.motion)
                       THEN "does_not_use_powers"
                       ELSE "uses_powers"
                  ELSE result0
             ELSE result0
    ELSE IF division.manual_motion # <<>> \/ division.motion # <<>>
    THEN LET motion_based_nonaction == is_nonaction_vote(division.motion)
             manual_motion_based_nonaction == is_nonaction_vote(division.manual_motion)
             poor_quality_motion == poor_quality_motion_text(division)
         IN  IF poor_quality_motion /\ division.manual_motion # <<>>
             THEN IF manual_motion_based_nonaction
                  THEN "does_not_use_powers"
                  ELSE "uses_powers"
             ELSE IF poor_quality_motion /\ division.manual_motion = <<>>
             THEN IF motion_based_nonaction
                  THEN "does_not_use_powers"
                  ELSE "uses_powers"
             ELSE IF motion_based_nonaction \/ manual_motion_based_nonaction
                  THEN "does_not_use_powers"
                  ELSE "uses_powers"
    ELSE "insufficent_info"

\* slip: a poor motion with a manual motion also listens to the primary text
DivisionInfo_motion_uses_powers_PoorHearsPrimary(division) ==
    IF division.vote_motion_analysis # None
    THEN LET result0 == IF VoteMotionAnalysis_motion_uses_powers(division.vote_motion_analysis)
                        THEN "uses_powers"
                        ELSE "does_not_use_powers"
         IN  IF division.vote_motion_analysis.vote_type = VoteTypeMember("AMENDMENT").value
             THEN IF division.manual_motion # <<>> /\ ~poor_quality_motion_text(division)
                  THEN IF is_nonaction_vote(division.motion)
                       THEN "does_not_use_powers"
                       ELSE "uses_powers"
                  ELSE result0
             ELSE result0
    ELSE IF division.manual_motion # <<>> \/ division.motion # <<>>
    THEN LET motion_based_nonaction == is_nonaction_vote(division.motion)
             manual_motion_based_nonaction == is_nonaction_vote(division.manual_motion)
             poor_quality_motion == poor_quality_motion_text(division)
         IN  IF poor_quality_motion /\ division.manual_motion # <<>>
             THEN IF motion_based_nonaction \/ manual_motion_based_nonaction
                  THEN "does_not_use_powers"
                  ELSE "uses_powers"
             ELSE IF poor_quality_motion /\ division.manual_motion = <<>>
             THEN IF motion_based_nonaction
                  THEN "does_not_use_powers"
                  ELSE "insufficent_info"
             ELSE IF motion_based_nonaction \/ manual_motion_based_nonaction
                  THEN "does_not_use_powers"
                  ELSE "uses_powers"
    ELSE "insufficent_info"

DivisionInfo_motion_uses_powers(division) ==
    IF division.vote_motion_analysis # None
    THEN LET result0 == IF VoteMotionAnalysis_motion_uses_powers(division.vote_motion_analysis)
                        THEN "uses_powers"
                        ELSE "does_not_use_powers"
         IN  IF division.vote_motion_analysis.vote_type = VoteTypeMember("AMENDMENT").value
             THEN IF division.manual_motion # <<>> /\ ~poor_quality_motion_text(division)
                  THEN IF is_nonaction_vote(division.motion)
                       THEN "does_not_use_powers"
                       ELSE "uses_powers"
                  ELSE result0
             ELSE result0
    ELSE IF division.manual_motion # <<>> \/ division.motion # <<>>
    THEN LET motion_based_nonaction == is_nonaction_vote(division.motion)
             manual_motion_based_nonaction == is_nonaction_vote(division.manual_motion)
             poor_quality_motion == poor_quality_motion_text(division)
         IN  IF poor_quality_motion /\ division.manual_motion # <<>>
             THEN IF manual_motion_based_nonaction
                  THEN "does_not_use_powers"
                  ELSE "uses_powers"
             ELSE IF poor_quality_motion /\ division.manual_motion = <<>>
             THEN IF motion_based_nonaction
                  THEN "does_not_use_powers"
                  ELSE "insufficent_info"
             ELSE IF motion_based_nonaction \/ manual_motion_based_nonaction
                  THEN "does_not_use_powers"
                  ELSE "uses_powers"
    ELSE "insufficent_info"

\* the filler of a long motion text
Padding == [i \in 1..PadWords |-> "word"]

\* the endings of the primary motion texts
MotionEndings ==
    {<<>>,
     <<"believes">>,
     <<"question", "put">>,
     <<"<p>", "believes", "</p>">>,
     <<"<p>", "question", "put", "</p>">>,
     <<"believes", "censures">>}

MotionTexts == MotionEndings \cup {Concat(Padding, e) : e \in MotionEndings}

ManualMotionTexts ==
    {<<>>, <<"believes">>, <<"question", "put">>, <<"regrets", "orders", "that">>}

SpeechTexts == {<<"believes">>, <<"question", "put">>}

VoteMotionAnalyses ==
    {[vote_type |-> m[2], full_motion_speech |-> t] : m \in VoteType, t \in SpeechTexts}

PowersInit ==
    /\ motion \in {[pc |-> "division", motion |-> m, manual_motion |-> mm,
                    vote_motion_analysis |-> vma, powers |-> "unread"] :
                        m \in MotionTexts, mm \in ManualMotionTexts,
                        vma \in {None} \cup VoteMotionAnalyses}
    /\ NoScoring
    /\ link = NoLink
    /\ NoService
    /\ align = NoAlign

\* division.motion_uses_powers()
MotionUsesPowers ==
    /\ motion.pc = "division"
    /\ motion' = [motion EXCEPT !.pc = "analysed",
                                !.powers = DivisionInfo_motion_uses_powers(motion)]
    /\ UNCHANGED <<scoreVars, link, align, serviceVars>>

PowersNext == MotionUsesPowers

SpecPowers == PowersInit /\ [][PowersNext]_vars

(* ---- the claims about motion_uses_powers ---- *)

Analysed == motion.pc = "analysed"

\* the number of words of the primary motion's plain text is below 20
PoorPrimary == SplitLen(get_text(motion.motion)) < 20

NoManual == motion.manual_motion = <<>>

NoRecord == motion.vote_motion_analysis = None

\* C15 as stated: motion_uses_powers never returns uses_powers for a division
\* with a poor-quality primary motion and no manual motion, whatever else is
\* attached to it, a VoteMotionAnalysis record of any vote type included.
C15_PoorNeverUsesPowers ==
    (Analysed /\ PoorPrimary /\ NoManual) => motion.powers # "uses_powers"

\* C15 amended: for a division with a poor-quality primary motion and no
\* manual motion, motion_uses_powers never returns uses_powers when no
\* VoteMotionAnalysis record is attached; with a record attached it returns
\* uses_powers exactly when the record's own motion_uses_powers() is true,
\* and does_not_use_powers otherwise.
C15_PoorNeverUsesPowersWithoutRecord ==
    (Analysed /\ PoorPrimary /\ NoManual) =>
        IF NoRecord
        THEN motion.powers # "uses_powers"
        ELSE LET vma == motion.vote_motion_analysis
                 presumed == vma.vote_type \notin {"adjournment", "other", "government_agenda"}
             IN  motion.powers = IF presumed \/ ~is_nonaction_vote(vma.full_motion_speech)
                                 THEN "uses_powers"
                                 ELSE "does_not_use_powers"

\* a poor primary motion that is not non-action, no manual motion, no record
C15_Witness ==
    /\ Analysed /\ PoorPrimary /\ NoManual /\ NoRecord
    /\ motion.motion = <<"<p>", "question", "put", "</p>">>
    /\ motion.powers = "insufficent_info"

\* C16: with no VoteMotionAnalysis record, a poor-quality primary with a
\* manual motion gives does_not_use_powers if the manual motion alone is
\* non-action and uses_powers otherwise; a poor-quality primary without a
\* manual motion gives does_not_use_powers if the primary is non-action and
\* insufficent_info otherwise; a good-quality primary gives
\* does_not_use_powers if the primary or the manual motion is non-action
\* and uses_powers otherwise.
C16_DecisionTable ==
    (Analysed /\ NoRecord) =>
        LET primary == is_nonaction_vote(motion.motion)
            manual == is_nonaction_vote(motion.manual_motion)
        IN  /\ (PoorPrimary /\ ~NoManual) =>
                    motion.powers = IF manual THEN "does_not_use_powers" ELSE "uses_powers"
            /\ (PoorPrimary /\ NoManual) =>
                    motion.powers = IF primary THEN "does_not_use_powers" ELSE "insufficent_info"
            /\ ~PoorPrimary =>
                    motion.powers = IF primary \/ manual THEN "does_not_use_powers" ELSE "uses_powers"

\* a poor primary motion that is non-action with a manual motion that is not
C16_Witness ==
    /\ Analysed /\ NoRecord /\ PoorPrimary
    /\ is_nonaction_vote(motion.motion)
    /\ ~NoManual /\ ~is_nonaction_vote(motion.manual_motion)
    /\ motion.powers = "uses_powers"

(* ======================================================================= *)
(* Policy alignment: the aggregator (SQL) and the validator (Python) for   *)
(* one target person, one policy of the commons and one comparison party,  *)
(* over the whole time period.  A division link comes with the membership  *)
(* rows and the recorded votes of its date.                                *)
(* ======================================================================= *)

\* most division links of the policy
MaxDivisions == 2

\* counts are held in units of 1/AlignUnit vote: a group of one or two
\* members divides every sum exactly
AlignUnit == 2

\* isclose(a, b, abs_tol=0.05): the tolerance in hundredths
AbsTolHundredths == 5

Target == "t"

Comparators == {"a", "b"}

Persons == {Target} \cup Comparators

\* source_pw_vote.vote; "null" is no vote row for the member
RawVotes == {"aye", "no", "both", "tellaye", "tellno"}

\* a member's row on the date of a division: no membership ("none"), a
\* membership in the comparison party ("party") or in another party ("other")
Row(m, v) == [membership |-> m, vote |-> v]

TargetRows ==
    {Row("none", "null"), Row("other", "aye")} \cup {Row("party", v) : v \in RawVotes \cup {"null"}}

FirstComparatorRows ==
    {Row("none", "null"), Row("other", "no")} \cup {Row("party", v) : v \in {"null", "both", "tellno"}}

SecondComparatorRows ==
    {Row("none", "null"), Row("party", "aye")}

\* the division links with their dates' rows
AlignDivisions ==
    {[alignment |-> al, strength |-> st, rows |-> [p \in Persons |-> IF p = Target THEN rt ELSE IF p = "a" THEN ra ELSE rb]] :
        al \in {"agree", "against", "neutral"}, st \in {"weak", "strong"},
        rt \in TargetRows, ra \in FirstComparatorRows, rb \in SecondComparatorRows}

ScoreFields ==
    {"num_votes_same", "num_strong_votes_same", "num_votes_different", "num_strong_votes_different",
     "num_votes_absent", "num_strong_votes_absent", "num_votes_abstained", "num_strong_votes_abstained"}

\* Score(): every count 0
EmptyScore == [f \in ScoreFields |-> 0]

\* the count field of an outcome at a strength
ScoreField(outcome, is_strong) ==
    CASE outcome = "same" -> IF is_strong THEN "num_strong_votes_same" ELSE "num_votes_same"
      [] outcome = "different" -> IF is_strong THEN "num_strong_votes_different" ELSE "num_votes_different"
      [] outcome = "absent" -> IF is_strong THEN "num_strong_votes_absent" ELSE "num_votes_absent"
      [] outcome = "abstained" -> IF is_strong THEN "num_strong_votes_abstained" ELSE "num_votes_abstained"

Outcomes == {"same", "different", "absent", "abstained"}

\* Score.total_votes
Score_total_votes(score) ==
    score["num_votes_same"] + score["num_votes_different"] + score["num_votes_absent"]
    + score["num_strong_votes_same"] + score["num_strong_votes_different"] + score["num_strong_votes_absent"]
    + score["num_votes_abstained"] + score["num_strong_votes_abstained"]

\* Score.reduce(): each count as a fraction of the total
Score_reduce(score) == [f \in ScoreFields |-> (score[f] * AlignUnit) \div Score_total_votes(score)]

\* Score.__add__
Score_add(self, other) == [f \in ScoreFields |-> self[f] + other[f]]

(* ---- the aggregator ---- *)

get_clean_vote(vote) == IF vote = "both" THEN "abstention" ELSE vote

\* slip: only tellaye is folded
get_effective_vote_TellnoKept(vote) ==
    CASE vote = "tellaye" -> "aye"
      [] OTHER -> vote

get_effective_vote(vote) ==
    CASE vote = "tellaye" -> "aye"
      [] vote = "tellno" -> "no"
      [] OTHER -> vote

\* the members of the date
Members(division) == {p \in Persons : division.rows[p].membership # "none"}

\* the view pw_vote: the vote rows of the members
pw_vote(division) ==
    [p \in {q \in Members(division) : division.rows[q].vote # "null"} |-> get_clean_vote(division.rows[p].vote)]

\* one row for every member of the date, absent where there is no vote row
pw_vote_with_absences(division) ==
    [p \in Members(division) |->
        IF p \notin DOMAIN pw_vote(division) THEN "absent" ELSE get_effective_vote(pw_vote(division)[p])]

\* slip: neutral links are let through
policy_alignment_NeutralCounted(division) ==
    IF Target \notin Members(division)
    THEN {}
    ELSE {[person_id |-> p,
           is_target |-> IF p = Target THEN 1 ELSE 0,
           strong_int |-> IF division.strength = "strong" THEN 1 ELSE 0,
           answer_agreed |-> IF <<pw_vote_with_absences(division)[p], division.alignment>> \in {<<"aye", "agree">>, <<"no", "against">>} THEN 1 ELSE 0,
           answer_disagreed |-> IF <<pw_vote_with_absences(division)[p], division.alignment>> \in {<<"aye", "against">>, <<"no", "agree">>} THEN 1 ELSE 0,
           abstained |-> IF pw_vote_with_absences(division)[p] = "abstention" THEN 1 ELSE 0,
           absent |-> IF pw_vote_with_absences(division)[p] = "absent" THEN 1 ELSE 0] :
          p \in {q \in Members(division) : q = Target \/ division.rows[q].membership = "party"}}

\* the rows of one division link: one for the target and for every member of
\* the comparison party, when the link is not neutral and the target is a
\* member on the date
policy_alignment(division) ==
    IF division.alignment = "neutral" \/ Target \notin Members(division)
    THEN {}
    ELSE {[person_id |-> p,
           is_target |-> IF p = Target THEN 1 ELSE 0,
           strong_int |-> IF division.strength = "strong" THEN 1 ELSE 0,
           answer_agreed |-> IF <<pw_vote_with_absences(division)[p], division.alignment>> \in {<<"aye", "agree">>, <<"no", "against">>} THEN 1 ELSE 0,
           answer_disagreed |-> IF <<pw_vote_with_absences(division)[p], division.alignment>> \in {<<"aye", "against">>, <<"no", "agree">>} THEN 1 ELSE 0,
           abstained |-> IF pw_vote_with_absences(division)[p] = "abstention" THEN 1 ELSE 0,
           absent |-> IF pw_vote_with_absences(division)[p] = "absent" THEN 1 ELSE 0] :
          p \in {q \in Members(division) : q = Target \/ division.rows[q].membership = "party"}}

\* sum(column) over a set of rows
SqlSum(rows, column) ==
    LET RECURSIVE Sum(_)
        Sum(S) == IF S = {} THEN 0 ELSE LET r == CHOOSE x \in S : TRUE IN r[column] + Sum(S \ {r})
    IN  Sum(rows)

\* slip: the sums of the group are not divided by its size
comparisons_by_policy_vote_Undivided(division) ==
    {LET group == {r \in policy_alignment(division) : r.is_target = is_target}
     IN  [is_target |-> is_target,
          strong_int |-> IF division.strength = "strong" THEN 1 ELSE 0,
          total |-> Cardinality(group),
          num_divisions_agreed |-> SqlSum(group, "answer_agreed") * AlignUnit,
          num_divisions_disagreed |-> SqlSum(group, "answer_disagreed") * AlignUnit,
          num_divisions_abstained |-> SqlSum(group, "abstained") * AlignUnit,
          num_divisions_absent |-> SqlSum(group, "absent") * AlignUnit] :
        is_target \in {r.is_target : r \in policy_alignment(division)}}

\* the rows of one division link grouped by is_target
comparisons_by_policy_vote(division) ==
    {LET group == {r \in policy_alignment(division) : r.is_target = is_target}
         total == Cardinality(group)
     IN  [is_target |-> is_target,
          strong_int |-> IF division.strength = "strong" THEN 1 ELSE 0,
          total |-> total,
          num_divisions_agreed |-> (SqlSum(group, "answer_agreed") * AlignUnit) \div total,
          num_divisions_disagreed |-> (SqlSum(group, "answer_disagreed") * AlignUnit) \div total,
          num_divisions_abstained |-> (SqlSum(group, "abstained") * AlignUnit) \div total,
          num_divisions_absent |-> (SqlSum(group, "absent") * AlignUnit) \div total] :
        is_target \in {r.is_target : r \in policy_alignment(division)}}

\* comparisons_by_policy_vote, division by division
ComparisonRows == [division \in AlignDivisions |-> comparisons_by_policy_vote(division)]

\* the columns a row of comparisons_by_policy_vote adds to in PolicyPivotTable
PivotRow(row) ==
    [f \in ScoreFields |->
        IF f = ScoreField("same", row.strong_int = 1) THEN row.num_divisions_agreed
        ELSE IF f = ScoreField("different", row.strong_int = 1) THEN row.num_divisions_disagreed
        ELSE IF f = ScoreField("absent", row.strong_int = 1) THEN row.num_divisions_absent
        ELSE IF f = ScoreField("abstained", row.strong_int = 1) THEN row.num_divisions_abstained
        ELSE 0]

\* PolicyPivotTable: the sums by is_target, with the rows of one more division
PolicyPivotTable(pivot, division) ==
    LET rows == ComparisonRows[division]
        keys == DOMAIN pivot \cup {r.is_target : r \in rows}
    IN  [k \in keys |->
            LET before == IF k \in DOMAIN pivot THEN pivot[k] ELSE EmptyScore
            IN  IF \E r \in rows : r.is_target = k
                THEN Score_add(before, PivotRow(CHOOSE r \in rows : r.is_target = k))
                ELSE before]

(* ---- the validator ---- *)

\* the outcome of one member of rel_party_members in the division loop
SlowOutcome(division, p) ==
    IF p \notin DOMAIN pw_vote(division)
    THEN "absent"
    ELSE LET vote == pw_vote(division)[p]
             aligned == \/ vote \in {"aye", "tellaye"} /\ division.alignment = "agree"
                        \/ vote \in {"no", "tellno"} /\ division.alignment = "against"
             is_abstention == vote = "abstention"
         IN  IF aligned THEN "same" ELSE IF is_abstention THEN "abstained" ELSE "different"

\* what one pass of the division loop counts: the target's outcome and
\* other_this_vote_score; nothing for a link the loop skips
division_pass(division) ==
    IF division.alignment = "neutral" \/ Target \notin Members(division)
    THEN [member_score |-> EmptyScore, other_this_vote_score |-> EmptyScore]
    ELSE LET is_strong == division.strength = "strong"
             rel_party_members == {p \in Members(division) : division.rows[p].membership = "party" \/ p = Target}
             counted(S) == [f \in ScoreFields |-> Cardinality({p \in S : ScoreField(SlowOutcome(division, p), is_strong) = f}) * AlignUnit]
         IN  [member_score |-> counted({Target}),
              other_this_vote_score |-> counted(rel_party_members \ {Target})]

\* the passes of the division loop, division by division
DivisionPasses == [division \in AlignDivisions |-> division_pass(division)]

\* get_scores_slow: the scores after one more pass of the division loop
get_scores_slow(scores, division) ==
    [member_score |-> Score_add(scores.member_score, DivisionPasses[division].member_score),
     other_score |-> IF Score_total_votes(DivisionPasses[division].other_this_vote_score) > 0
                     THEN Score_add(scores.other_score, Score_reduce(DivisionPasses[division].other_this_vote_score))
                     ELSE scores.other_score]

(* ---- validate_approach ---- *)

\* isclose(a, b, abs_tol=0.05) on two counts
tol(a, b) == Abs(a - b) * 100 <= AbsTolHundredths * AlignUnit

\* Score.__eq__: no tol_errors
Score_eq(self, other) == \A f \in ScoreFields : tol(self[f], other[f])

\* the fast PolicyComparison from the pivot rows
fast_approach(di) ==
    LET td == IF 1 \in DOMAIN di THEN di[1] ELSE EmptyScore
    IN  [target_distribution |-> td,
         other_distribution |-> IF 0 \in DOMAIN di THEN di[0] ELSE td]

\* PolicyComparison.__eq__
PolicyComparison_eq(self, other) ==
    /\ Score_eq(self.target_distribution, other.target_distribution)
    /\ Score_eq(self.other_distribution, other.other_distribution)

(* ---- the state machine ---- *)

NoPivot == [k \in {} |-> EmptyScore]

AlignInit ==
    /\ align = [pc |-> "links", links |-> 0, pivot |-> NoPivot,
                slow |-> [member_score |-> EmptyScore, other_score |-> EmptyScore],
                alignment |-> "none", counted |-> FALSE, comparators |-> 0,
                results_match |-> "unread"]
    /\ NoScoring
    /\ link = NoLink
    /\ NoService
    /\ motion = NoMotion

\* the policy has one more division link: its rows add to the pivot sums,
\* and the division loop of the validator makes one more pass
DivisionLink(division) ==
    /\ align.pc = "links"
    /\ align.links < MaxDivisions
    /\ align' = [align EXCEPT
            !.links = @ + 1,
            !.pivot = PolicyPivotTable(@, division),
            !.slow = get_scores_slow(@, division),
            !.alignment = division.alignment,
            !.counted = division.alignment # "neutral" /\ Target \in Members(division),
            !.comparators = Cardinality({p \in Comparators : division.rows[p].membership = "party"})]
    /\ UNCHANGED <<scoreVars, link, motion, serviceVars>>

\* validate_approach: the two results are put side by side
ValidateApproach ==
    /\ align.pc = "links"
    /\ align' = [align EXCEPT
            !.pc = "validated",
            !.results_match =
                IF PolicyComparison_eq([target_distribution |-> align.slow.member_score,
                                        other_distribution |-> align.slow.other_score],
                                       fast_approach(align.pivot))
                THEN "True" ELSE "False"]
    /\ UNCHANGED <<scoreVars, link, motion, serviceVars>>

AlignNext ==
    \/ \E division \in AlignDivisions : DivisionLink(division)
    \/ ValidateApproach

SpecAlign == AlignInit /\ [][AlignNext]_vars

(* ---- one division link through both paths ---- *)

\* every division link with every row of its date
Divisions ==
    {[alignment |-> al, strength |-> st, rows |-> [p \in Persons |-> IF p = Target THEN rt ELSE IF p = "a" THEN ra ELSE rb]] :
        al \in {"agree", "against", "neutral"}, st \in {"weak", "strong"},
        rt \in TargetRows, ra \in TargetRows, rb \in {Row("none", "null"), Row("party", "tellaye"), Row("party", "no")}}

DivisionInit ==
    /\ align \in {[pc |-> "division", division |-> d, fast |-> "unread", rows |-> {},
                   slow |-> "unread", pass |-> [member_score |-> EmptyScore, other_this_vote_score |-> EmptyScore]] :
                        d \in Divisions}
    /\ NoScoring
    /\ link = NoLink
    /\ NoService
    /\ motion = NoMotion

\* the aggregator's rows for the division link
ComparisonsByPolicyVote ==
    /\ align.pc = "division"
    /\ align.fast = "unread"
    /\ align' = [align EXCEPT !.fast = "read", !.rows = comparisons_by_policy_vote(align.division)]
    /\ UNCHANGED <<scoreVars, link, motion, serviceVars>>

\* the validator's pass of the division loop for the division link
DivisionPass ==
    /\ align.pc = "division"
    /\ align.slow = "unread"
    /\ align' = [align EXCEPT !.slow = "read", !.pass = division_pass(align.division)]
    /\ UNCHANGED <<scoreVars, link, motion, serviceVars>>

DivisionNext ==
    \/ ComparisonsByPolicyVote
    \/ DivisionPass

SpecDivision == DivisionInit /\ [][DivisionNext]_vars

(* ---- the claims about the aggregator and the validator ---- *)

Validated == align.pc = "validated"

\* the aggregator's sums for the target and for the comparison party
FastTarget(a) == IF 1 \in DOMAIN a.pivot THEN a.pivot[1] ELSE EmptyScore

FastOther(a) == IF 0 \in DOMAIN a.pivot THEN a.pivot[0] ELSE EmptyScore

\* two counts differ by at most 0.05
Within005(x, y) == (x - y) * 100 <= 5 * AlignUnit /\ (y - x) * 100 <= 5 * AlignUnit

\* C17: for the same person, policy and comparison party the aggregator and
\* the validator give target and comparison distributions whose
\* corresponding count fields differ by at most 0.05, for every combination
\* of memberships, votes, absences, tellers and decision links.
C17_FastAndSlowAgree ==
    Validated =>
        \A f \in ScoreFields :
            /\ Within005(fast_approach(align.pivot).target_distribution[f], align.slow.member_score[f])
            /\ Within005(fast_approach(align.pivot).other_distribution[f], align.slow.other_score[f])

\* a step that takes in one more division link
LinkStep == align.pc = "links" /\ align'.pc = "links" /\ align'.links = align.links + 1

\* what a step adds to a count of an outcome, over both strengths
Added(before, after, outcome) ==
    (after[ScoreField(outcome, TRUE)] - before[ScoreField(outcome, TRUE)])
    + (after[ScoreField(outcome, FALSE)] - before[ScoreField(outcome, FALSE)])

\* the step adds one vote in all, no outcome more than one or less than none
AddsOneVote(before, after) ==
    /\ \A f \in ScoreFields : after[f] - before[f] \in 0..AlignUnit
    /\ Added(before, after, "same") + Added(before, after, "different")
       + Added(before, after, "abstained") + Added(before, after, "absent") = AlignUnit

\* the step adds exactly 1 to exactly one count and nothing to the others
AddsOneOutcome(before, after) ==
    \E f \in ScoreFields :
        /\ after[f] - before[f] = AlignUnit
        /\ \A g \in ScoreFields \ {f} : after[g] = before[g]

\* C18: for every counted division that has at least one comparison member,
\* the comparison group's agreed, disagreed, abstained and absent
\* contributions each lie in [0,1] and sum to exactly 1, in the aggregator
\* and in the validator, so that the comparison distribution's total_votes
\* grows by 1 with each such division whatever the size of the party; the
\* target's contribution to each counted division is exactly 1 in exactly
\* one category.
C18_OneVotePerDivision ==
    [][LinkStep =>
        /\ (align'.counted /\ align'.comparators > 0) =>
                /\ AddsOneVote(FastOther(align), FastOther(align'))
                /\ AddsOneVote(align.slow.other_score, align'.slow.other_score)
                /\ Score_total_votes(FastOther(align')) = Score_total_votes(FastOther(align)) + AlignUnit
                /\ Score_total_votes(align'.slow.other_score) = Score_total_votes(align.slow.other_score) + AlignUnit
        /\ align'.counted =>
                /\ AddsOneOutcome(FastTarget(align), FastTarget(align'))
                /\ AddsOneOutcome(align.slow.member_score, align'.slow.member_score)]_vars

\* two counted divisions, the last with two comparison members who voted
\* differently: the comparison distribution holds two votes, in halves
C18_Witness ==
    /\ align.pc = "links" /\ align.links = 2
    /\ align.counted /\ align.comparators = 2
    /\ Score_total_votes(FastOther(align)) = 2 * AlignUnit
    /\ Score_total_votes(align.slow.other_score) = 2 * AlignUnit
    /\ \E f \in ScoreFields : FastOther(align)[f] = 1

PlainVote(vote) ==
    CASE vote = "tellaye" -> "aye"
      [] vote = "tellno" -> "no"
      [] vote = "both" -> "abstention"
      [] OTHER -> vote

PlainDivision(division) ==
    [division EXCEPT !.rows = [p \in Persons |-> [division.rows[p] EXCEPT !.vote = PlainVote(@)]]]

BothRead == align.pc = "division" /\ align.fast = "read" /\ align.slow = "read"

\* C20: a teller vote is classified exactly as the plain vote (tellaye as
\* aye, tellno as no) and a recorded "both" as an abstention, in the
\* aggregator and in the validator: with every teller vote replaced by the
\* plain vote no count of either path changes, and a tellaye on an agree
\* link or a tellno on an against link counts as a vote the same way.
C20_TellersArePlainVotes ==
    BothRead =>
        /\ align.rows = comparisons_by_policy_vote(PlainDivision(align.division))
        /\ align.pass = division_pass(PlainDivision(align.division))
        /\ (/\ align.division.rows[Target] \in {Row("party", "tellaye"), Row("party", "tellno"), Row("party", "both")}
            /\ align.division.alignment # "neutral") =>
                LET vote == align.division.rows[Target].vote
                    outcome == IF vote = "both" THEN "abstained"
                               ELSE IF (vote = "tellaye") = (align.division.alignment = "agree") THEN "same"
                               ELSE "different"
                    is_strong == align.division.strength = "strong"
                IN  /\ align.pass.member_score[ScoreField(outcome, is_strong)] = AlignUnit
                    /\ \E r \in align.rows : r.is_target = 1 /\ PivotRow(r)[ScoreField(outcome, is_strong)] = AlignUnit

\* the target told for the noes, one comparison member is recorded as both
C20_Witness ==
    /\ BothRead
    /\ align.division.alignment = "against"
    /\ align.division.rows[Target] = Row("party", "tellno")
    /\ align.division.rows["a"] = Row("party", "both")
    /\ align.division.rows["b"] = Row("party", "tellaye")
    /\ align.pass.member_score[ScoreField("same", align.division.strength = "strong")] = AlignUnit

\* C24: with a VoteMotionAnalysis record motion_uses_powers never returns
\* insufficent_info; for the vote types adjournment, other and
\* government_agenda it returns does_not_use_powers exactly when
\* is_nonaction_vote holds on the record's motion speech and uses_powers
\* otherwise; for every other vote type except amendment it returns
\* uses_powers.
C24_RecordDecides ==
    (Analysed /\ ~NoRecord) =>
        LET vma == motion.vote_motion_analysis
        IN  /\ motion.powers # "insufficent_info"
            /\ vma.vote_type \in {"adjournment", "other", "government_agenda"} =>
                    motion.powers = IF is_nonaction_vote(vma.full_motion_speech)
                                    THEN "does_not_use_powers"
                                    ELSE "uses_powers"
            /\ vma.vote_type \notin {"adjournment", "other", "government_agenda", "amendment"} =>
                    motion.powers = "uses_powers"

\* a government-agenda record with a non-action speech on a long motion
\* that is no non-action motion, with a manual motion
C24_Witness ==
    /\ Analysed
    /\ motion.vote_motion_analysis = [vote_type |-> "government_agenda", full_motion_speech |-> <<"believes">>]
    /\ motion.motion = Concat(Padding, <<"question", "put">>)
    /\ motion.manual_motion = <<"question", "put">>
    /\ motion.powers = "does_not_use_powers"

(* ---- further claims about PersonPolicyLink ---- *)

\* C28: a PersonPolicyLink in which the own or the comparison distance score
\* is the no-data value -1 is never reported as a significant difference,
\* and its comparison_score_difference stays within [0,1].
C28_SentinelNeverSignificant ==
    (link.pc # "none" /\ (link.own_distance = MinusOne \/ link.other_distance = MinusOne)) =>
        /\ link.significant # "True"
        /\ link.pc = "scored" =>
                /\ FracLE(Zero, link.comparison_score_difference)
                /\ FracLE(link.comparison_score_difference, Frac(1, 1))

(* ======================================================================= *)
(* PersonPolicyLink.from_df: one group of the data frame, indexed by       *)
(* is_target; a scored VoteDistribution is held as its distance_score.     *)
(* ======================================================================= *)

\* the column labels of the group's data frame
DfColumns ==
    {"policy_id", "person_id", "chamber", "comparison_party", "strength_meaning",
     "num_votes_same", "num_strong_votes_same", "num_votes_different", "num_strong_votes_different",
     "num_votes_absent", "num_strong_votes_absent", "num_votes_abstained", "num_strong_votes_abstained",
     "start_year", "end_year", "vote_distributions"}

\* the groups: the target's row ("1"), with or without a comparison row ("0")
DfGroups ==
    {[columns |-> DfColumns, vote_distributions |-> [i \in index |-> IF i = "1" THEN own ELSE other]] :
        index \in {{"1"}, {"0", "1"}}, own \in DistanceScores, other \in DistanceScores}

\* `key in gdf` on a DataFrame: the key is a column label
DataFrame_contains(gdf, key) == key \in gdf.columns

\* Series.get(key, default): the value at the index label, or the default
Series_get(series, key, default) == IF key \in DOMAIN series THEN series[key] ELSE default

\* the PersonPolicyLink of one group, scored
from_df(gdf) ==
    LET target_values == gdf.vote_distributions["1"]
        comparison_values == Series_get(gdf.vote_distributions, "0", target_values)
    IN  [own_distance |-> target_values,
         other_distance |-> comparison_values,
         no_party_comparison |-> ~DataFrame_contains(gdf, "0"),
         comparison_score_difference |-> FracAbsDiff(target_values, comparison_values)]

\* no link has been built yet
NoItem ==
    [own_distance |-> Zero, other_distance |-> Zero, no_party_comparison |-> FALSE,
     comparison_score_difference |-> Zero]

FromDfInit ==
    /\ link \in {[pc |-> "df", gdf |-> g, item |-> NoItem, significant |-> "unread"] : g \in DfGroups}
    /\ NoScoring
    /\ motion = NoMotion
    /\ NoService
    /\ align = NoAlign

\* from_df appends the group's link
FromDf ==
    /\ link.pc = "df"
    /\ link' = [link EXCEPT !.pc = "item", !.item = from_df(link.gdf)]
    /\ UNCHANGED <<scoreVars, motion, align, serviceVars>>

\* the significant_difference property of the link is read
ItemSignificantDifference ==
    /\ link.pc = "item"
    /\ link.significant = "unread"
    /\ link' = [link EXCEPT !.significant =
                    IF significant_difference(link.item.own_distance, link.item.other_distance)
                    THEN "True" ELSE "False"]
    /\ UNCHANGED <<scoreVars, motion, align, serviceVars>>

FromDfNext ==
    \/ FromDf
    \/ ItemSignificantDifference

SpecFromDf == FromDfInit /\ [][FromDfNext]_vars

\* C27: in from_df, no_party_comparison is True if and only if the group has
\* no comparison row (is_target = 0); in exactly that case the target's own
\* distribution is the comparison distribution, so that
\* comparison_score_difference is 0 and significant_difference is False.
C27_NoPartyComparison ==
    link.pc = "item" =>
        LET no_row == "0" \notin DOMAIN link.gdf.vote_distributions
        IN  /\ link.item.no_party_comparison = no_row
            /\ no_row =>
                    /\ link.item.other_distance = link.item.own_distance
                    /\ link.item.comparison_score_difference = Zero
                    /\ link.significant # "True"
            /\ ~no_row => link.item.other_distance = link.gdf.vote_distributions["0"]

(* ======================================================================= *)
(* validate_approach: the comparison of the two results                    *)
(* ======================================================================= *)

\* the agreement counts of a Score
AgreementScoreFields ==
    {"num_agreements_same", "num_strong_agreements_same",
     "num_agreements_different", "num_strong_agreements_different"}

\* every count of a Score
AllScoreFields == ScoreFields \cup AgreementScoreFields

\* the counts that vary in the compared results, and their values (in
\* 1/AlignUnit votes)
VariedFields ==
    {"num_votes_same", "num_strong_votes_abstained", "num_agreements_same", "num_strong_agreements_different"}

VariedCounts == {1, 2}

\* the Scores that are compared: at most one count is not 0
ComparedScores ==
    {[f \in AllScoreFields |-> 0]}
    \cup {[f \in AllScoreFields |-> IF f = g THEN v ELSE 0] : g \in VariedFields, v \in VariedCounts}

PolicyComparisons ==
    {[target_distribution |-> td, other_distribution |-> od] : td \in ComparedScores, od \in ComparedScores}

\* Score.tol_errors: one description (field, own value, other value) for
\* every compared field that is not within the tolerance
Score_tol_errors(self, other) ==
    {[field |-> f, o |-> self[f], t |-> other[f]] : f \in {g \in ScoreFields : ~tol(self[g], other[g])}}

ValidateInit ==
    /\ align \in {[pc |-> "results", slow |-> sl, fast |-> fa, results_match |-> "unread",
                   target_errors |-> {}, other_errors |-> {}] :
                        sl \in PolicyComparisons, fa \in PolicyComparisons}
    /\ NoScoring
    /\ link = NoLink
    /\ NoService
    /\ motion = NoMotion

\* result = slow_approach == fast_approach
ResultsMatch ==
    /\ align.pc = "results"
    /\ align.results_match = "unread"
    /\ align' = [align EXCEPT !.results_match =
                    IF PolicyComparison_eq(align.slow, align.fast) THEN "True" ELSE "False"]
    /\ UNCHANGED <<scoreVars, link, motion, serviceVars>>

\* tol_errors of the two pairs of distributions
TolErrors ==
    /\ align.pc = "results"
    /\ align' = [align EXCEPT
            !.pc = "described",
            !.target_errors = Score_tol_errors(align.slow.target_distribution, align.fast.target_distribution),
            !.other_errors = Score_tol_errors(align.slow.other_distribution, align.fast.other_distribution)]
    /\ UNCHANGED <<scoreVars, link, motion, serviceVars>>

ValidateNext ==
    \/ ResultsMatch
    \/ TolErrors

SpecValidate == ValidateInit /\ [][ValidateNext]_vars

\* the fields of two Scores that differ by more than 0.05
Mismatched(self, other) == {f \in AllScoreFields : ~Within005(self[f], other[f])}

\* C25: validate_approach reports results_match = True if and only if, for
\* the target and for the comparison distribution, every corresponding count
\* field of the fast and the slow result, vote counts and agreement counts
\* alike, differs by at most 0.05; every field that differs by more yields
\* one mismatch description naming the field and both values.
C25_MatchIffAllFieldsClose ==
    /\ (align.pc \in {"results", "described"} /\ align.results_match # "unread") =>
            ((align.results_match = "True") <=>
                /\ Mismatched(align.slow.target_distribution, align.fast.target_distribution) = {}
                /\ Mismatched(align.slow.other_distribution, align.fast.other_distribution) = {})
    /\ align.pc = "described" =>
            /\ {e.field : e \in align.target_errors}
                    = Mismatched(align.slow.target_distribution, align.fast.target_distribution)
            /\ {e.field : e \in align.other_errors}
                    = Mismatched(align.slow.other_distribution, align.fast.other_distribution)
            /\ \A e \in align.target_errors :
                    e.o = align.slow.target_distribution[e.field] /\ e.t = align.fast.target_distribution[e.field]
            /\ \A e \in align.other_errors :
                    e.o = align.slow.other_distribution[e.field] /\ e.t = align.fast.other_distribution[e.field]

(* ======================================================================= *)
(* reload_database: the view and the background task                       *)
(* ======================================================================= *)

\* number of POST requests to /functions/reload_database
MaxRequests == 3

Requests == 1..MaxRequests

\* the members of duck_core.LoadingStatus that the program names
LoadingStatus == {"EMPTY", "CREATING_CACHE", "LOADED"}

\* the status the manager has once get_loaded_core has loaded the sources
get_loaded_core == "LOADED"

ReloadInit ==
    /\ duck_core \in {[pc |-> "serving", loading_status |-> st,
                       message |-> [r \in Requests |-> "none"],
                       task |-> [r \in Requests |-> "none"]] : st \in {"EMPTY", "LOADED"}}
    /\ NoScoring
    /\ link = NoLink
    /\ motion = NoMotion
    /\ align = NoAlign
    /\ report = NoReport
    /\ store = NoStore

\* the view: it reads the status and, if the status allows, adds the task
\* to the background tasks of the response; the status is left as it is
reload_database_view(r) ==
    /\ duck_core.pc = "serving"
    /\ duck_core.message[r] = "none"
    /\ IF duck_core.loading_status \in {"EMPTY", "LOADED"}
       THEN duck_core' = [duck_core EXCEPT !.message[r] = "Database reload started", !.task[r] = "added"]
       ELSE duck_core' = [duck_core EXCEPT !.message[r] = "Database reload already in progress."]
    /\ UNCHANGED <<scoreVars, link, motion, align, report, store>>

\* the background task starts, after the response has been sent: the
\* statements of reload_database up to its first await
reload_database_start(r) ==
    /\ duck_core.pc = "serving"
    /\ duck_core.task[r] = "added"
    /\ duck_core' = [duck_core EXCEPT !.task[r] = "running", !.loading_status = "CREATING_CACHE"]
    /\ UNCHANGED <<scoreVars, link, motion, align, report, store>>

\* the rest of reload_database: the cache is recreated in a second
\* manager, then the sources are loaded into duck_core again
reload_database_finish(r) ==
    /\ duck_core.pc = "serving"
    /\ duck_core.task[r] = "running"
    /\ duck_core' = [duck_core EXCEPT !.task[r] = "done", !.loading_status = get_loaded_core]
    /\ UNCHANGED <<scoreVars, link, motion, align, report, store>>

ReloadNext ==
    \/ \E r \in Requests : reload_database_view(r)
    \/ \E r \in Requests : reload_database_start(r)
    \/ \E r \in Requests : reload_database_finish(r)

SpecReload == ReloadInit /\ [][ReloadNext]_vars

\* the reload tasks that were accepted and have not finished
InProgress == {r \in Requests : duck_core.task[r] \in {"added", "running"}}

\* C26: at most one reload_database task is in progress at any time: a POST
\* that arrives after an earlier reload was accepted and before that reload
\* has finished is answered "Database reload already in progress." and
\* schedules nothing, under every interleaving of requests and tasks.
C26_AtMostOneReload ==
    duck_core.pc = "serving" =>
        /\ Cardinality(InProgress) <= 1
        /\ Cardinality({r \in Requests : duck_core.task[r] = "running"}) <= 1

(* ======================================================================= *)
(* PolicyReport.from_policy                                                *)
(* ======================================================================= *)

\* largest number of division links of a policy
MaxLinks == 2

\* the values of the IssueType enum
IssueType == {"strong_without_power", "no_strong_votes", "no_strong_votes_after_power_change"}

\* f"ignore:{issue}"
ignore_format(issue) ==
    CASE issue = "strong_without_power" -> "ignore:strong_without_power"
      [] issue = "no_strong_votes" -> "ignore:no_strong_votes"
      [] issue = "no_strong_votes_after_power_change" -> "ignore:no_strong_votes_after_power_change"

\* `marker in word` for the words of the notes: a marker is in itself, and
\* "ignore:no_strong_votes" is the start of the longer marker
InWord(marker, word) ==
    \/ word = marker
    \/ marker = "ignore:no_strong_votes" /\ word = "ignore:no_strong_votes_after_power_change"

\* `ignore_format in notes` on a text of notes
InNotes(marker, notes) == \E i \in DOMAIN notes : InWord(marker, notes[i])

\* the notes of a division link and of a policy
LinkNotes == {<<>>, <<"ignore:strong_without_power">>}

PolicyNotes ==
    {<<>>, <<"ignore:no_strong_votes">>, <<"ignore:no_strong_votes_after_power_change">>, <<"ignore:strong_without_power">>}

\* the names of the divisions
DivisionNames == {<<"Finance", "Bill">>, <<"Opposition", "Day">>}

\* a division link of a policy: the strength, the notes, and of its
\* decision the name and the result of motion_uses_powers()
DivisionLinks ==
    [strength : {"strong", "weak"}, notes : LinkNotes, division_name : DivisionNames, motion_uses_powers : PowersAnalysis]

\* the lists of at most n division links
RECURSIVE LinkLists(_)
LinkLists(n) ==
    IF n = 0 THEN {<<>>}
    ELSE LET shorter == LinkLists(n - 1)
         IN  shorter \cup {Concat(l, <<dl>>) : l \in {x \in shorter : Len(x) = n - 1}, dl \in DivisionLinks}

Policies == [division_links : LinkLists(MaxLinks), notes : PolicyNotes]

\* a new PolicyReport: no issues; the two counters of from_policy
NewReport == [division_issues |-> [k \in {} |-> <<>>], policy_issues |-> <<>>, strong_count |-> 0, strong_without_power |-> 0]

\* what add_from_division_issue returns
add_from_division_issue_returns(division_link, issue) == ~InNotes(ignore_format(issue), division_link.notes)

\* add_from_division_issue: division_issues afterwards; decision is the
\* decision of the link (the position of the link in the policy)
add_from_division_issue(division_issues, division_link, decision, issue) ==
    IF InNotes(ignore_format(issue), division_link.notes)
    THEN division_issues
    ELSE LET present == IF issue \in DOMAIN division_issues THEN division_issues
                        ELSE [k \in (DOMAIN division_issues) \cup {issue} |-> IF k = issue THEN <<>> ELSE division_issues[k]]
         IN  [present EXCEPT ![issue] = Concat(@, <<decision>>)]

\* add_policy_issue: policy_issues afterwards
add_policy_issue(policy_issues, notes, issue) ==
    IF InNotes(ignore_format(issue), notes) THEN policy_issues
    ELSE IF \E i \in DOMAIN policy_issues : policy_issues[i] = issue THEN policy_issues
    ELSE Concat(policy_issues, <<issue>>)

\* one pass of the loop of from_policy, for the link at position i
from_policy_division(r, division, i) ==
    LET uses_powers == division.motion_uses_powers = "uses_powers"
        strong == division.strength = "strong"
        first == strong /\ ~uses_powers
        second == Contains(lower(division.division_name), <<"opposition">>) /\ strong
        after_first == IF first THEN add_from_division_issue(r.division_issues, division, i, "strong_without_power")
                       ELSE r.division_issues
        after_second == IF second THEN add_from_division_issue(after_first, division, i, "strong_without_power")
                        ELSE after_first
    IN  [r EXCEPT
            !.strong_count = IF strong THEN @ + 1 ELSE @,
            !.strong_without_power = IF first /\ add_from_division_issue_returns(division, "strong_without_power") THEN @ + 1 ELSE @,
            !.division_issues = after_second]

RECURSIVE from_policy_loop(_, _, _)
from_policy_loop(r, division_links, i) ==
    IF i > Len(division_links) THEN r
    ELSE from_policy_loop(from_policy_division(r, division_links[i], i), division_links, i + 1)

\* from_policy: the loop, then the issues of the policy
from_policy(policy) ==
    LET r == from_policy_loop(NewReport, policy.division_links, 1)
    IN  [r EXCEPT !.policy_issues =
            IF r.strong_count = 0 THEN add_policy_issue(@, policy.notes, "no_strong_votes")
            ELSE IF r.strong_count - r.strong_without_power = 0
                 THEN add_policy_issue(@, policy.notes, "no_strong_votes_after_power_change")
                 ELSE @]

\* len_division_issues
RECURSIVE SumLen(_, _)
SumLen(division_issues, keys) ==
    IF keys = {} THEN 0
    ELSE LET k == CHOOSE x \in keys : TRUE
         IN  Len(division_issues[k]) + SumLen(division_issues, keys \ {k})

len_division_issues(r) == SumLen(r.division_issues, DOMAIN r.division_issues)

ReportInit ==
    /\ report \in {[pc |-> "policy", policy |-> p, report |-> NewReport, len_division_issues |-> 0] : p \in Policies}
    /\ NoScoring
    /\ link = NoLink
    /\ motion = NoMotion
    /\ align = NoAlign
    /\ duck_core = NoReload
    /\ store = NoStore

\* report = PolicyReport.from_policy(policy), then report.len_division_issues()
FromPolicy ==
    /\ report.pc = "policy"
    /\ LET r == from_policy(report.policy)
       IN  report' = [report EXCEPT !.pc = "reported", !.report = r, !.len_division_issues = len_division_issues(r)]
    /\ UNCHANGED <<scoreVars, link, motion, align, duck_core, store>>

ReportNext == FromPolicy

SpecReport == ReportInit /\ [][ReportNext]_vars

\* the positions at which a division is recorded under an issue
Recorded(issue) ==
    IF issue \in DOMAIN report.report.division_issues
    THEN {report.report.division_issues[issue][k] : k \in DOMAIN report.report.division_issues[issue]}
    ELSE {}

Links == DOMAIN report.policy.division_links

IsStrong(i) == report.policy.division_links[i].strength = "strong"

LinkUsesPowers(i) == report.policy.division_links[i].motion_uses_powers = "uses_powers"

LinkIgnores(i) == InNotes("ignore:strong_without_power", report.policy.division_links[i].notes)

Flagged(issue) == \E k \in DOMAIN report.report.policy_issues : report.report.policy_issues[k] = issue

\* C21: from_policy records a division under STRONG_WITHOUT_POWER if and
\* only if its link is strong, its motion_uses_powers() is not USES_POWERS
\* and the notes of the link do not contain ignore:strong_without_power; a
\* link with that marker is never recorded under the issue.
C21_RecordedIffStrongWithoutPower ==
    report.pc = "reported" =>
        \A i \in Links :
            /\ (i \in Recorded("strong_without_power")) <=> (IsStrong(i) /\ ~LinkUsesPowers(i) /\ ~LinkIgnores(i))
            /\ LinkIgnores(i) => i \notin Recorded("strong_without_power")

\* C22: from_policy flags NO_STRONG_VOTES when the policy has no strong
\* division link, and NO_STRONG_VOTES_AFTER_POWER_CHANGE when it has at
\* least one strong link and every strong link is flagged
\* STRONG_WITHOUT_POWER, each unless the policy notes carry the matching
\* ignore marker; the two flags are never both present.
C22_PolicyFlags ==
    report.pc = "reported" =>
        LET strong == {i \in Links : IsStrong(i)}
        IN  /\ (strong = {} /\ ~InNotes("ignore:no_strong_votes", report.policy.notes))
                    => Flagged("no_strong_votes")
            /\ (/\ strong # {}
                /\ strong \subseteq Recorded("strong_without_power")
                /\ ~InNotes("ignore:no_strong_votes_after_power_change", report.policy.notes))
                    => Flagged("no_strong_votes_after_power_change")
            /\ ~(Flagged("no_strong_votes") /\ Flagged("no_strong_votes_after_power_change"))

\* C30: in a report built by from_policy each division appears at most once
\* in division_issues[STRONG_WITHOUT_POWER], so len_division_issues() never
\* exceeds the number of strong division links of the policy.
C30_EachDivisionOnce ==
    report.pc = "reported" =>
        /\ "strong_without_power" \in DOMAIN report.report.division_issues =>
                LET l == report.report.division_issues["strong_without_power"]
                IN  \A a, b \in DOMAIN l : l[a] = l[b] => a = b
        /\ report.len_division_issues <= Cardinality({i \in Links : IsStrong(i)})

(* ======================================================================= *)
(* generate_voting_records_for_chamber and the policy hashes               *)
(* ======================================================================= *)

\* number of policy ids
MaxPolicies == 2

PolicyIds == 1..MaxPolicies

\* the people of the chamber, and the divisions each of them took part in:
\* the vote data, which does not change
PersonIds == {1, 2}

TookPart(person_id) == IF person_id = 1 THEN {"d1", "d2"} ELSE {"d2"}

\* a policy file: the divisions it links (standing for strength_meaning,
\* division_links and agreement_links without their notes) and the notes of
\* its links
PolicyFileContents == [links : {{"d1"}, {"d1", "d2"}}, notes : {"", "checked"}]

\* no argument (policy_id / person_id is None)
NoId == 0

\* the file policy_update_hash.csv / person_policies.parquet does not exist
AbsentCsv == [exists |-> FALSE, df |-> <<>>]

AbsentParquet == [exists |-> FALSE, df |-> {}]

\* get_policy_hash: the digest of the policy without the notes of its
\* links (different hashable items have different digests)
get_policy_hash(policy_file) == policy_file.links

\* get_policies_hash: policy_id -> hash, of the policy files or of one
get_policies_hash(files, specific_id_only) ==
    LET ids == IF specific_id_only # NoId THEN (DOMAIN files) \cap {specific_id_only} ELSE DOMAIN files
    IN  [id \in ids |-> get_policy_hash(files[id])]

\* update_policies_hash: the stored hashes afterwards (concat, the later
\* entry of a policy_id kept)
update_policies_hash(hashes, files, specific_id_only) ==
    LET new_df == get_policies_hash(files, specific_id_only)
    IN  IF ~hashes.exists THEN [exists |-> TRUE, df |-> new_df]
        ELSE [exists |-> TRUE,
              df |-> [id \in (DOMAIN hashes.df) \cup (DOMAIN new_df) |-> IF id \in DOMAIN new_df THEN new_df[id] ELSE hashes.df[id]]]

\* check_policy_hash
check_policy_hash(hashes, files) ==
    IF ~hashes.exists THEN "FileNotFoundError"
    ELSE IF hashes.df = get_policies_hash(files, NoId) THEN "True" ELSE "False"

\* get_pivot_df: the rows of a person, one for each policy with a division
\* the person took part in; value stands for the counted distribution
get_pivot_df(files, person_id) ==
    {[person_id |-> person_id, policy_id |-> id, value |-> files[id].links \cap TookPart(person_id)] :
        id \in {i \in DOMAIN files : files[i].links \cap TookPart(person_id) # {}}}

\* get_relevant_people
get_relevant_people(files, policy_id) ==
    LET ids == IF policy_id # NoId THEN (DOMAIN files) \cap {policy_id} ELSE DOMAIN files
    IN  {p \in PersonIds : \E id \in ids : files[id].links \cap TookPart(p) # {}}

\* the people whose rows a run computes
person_ids(files, policy_id, person_id) ==
    IF person_id # NoId THEN {person_id} ELSE get_relevant_people(files, policy_id)

\* the rows a run writes to person_policies.parquet
generated_rows(rows, files, policy_id, person_id) ==
    LET new_df == UNION {get_pivot_df(files, p) : p \in person_ids(files, policy_id, person_id)}
        df == IF person_id # NoId \/ policy_id # NoId
              THEN new_df \cup {old \in rows.df : ~\E new \in new_df : new.person_id = old.person_id /\ new.policy_id = old.policy_id}
              ELSE new_df
    IN  [exists |-> TRUE, df |-> df]

\* the sets of policy files: the policy directory is never empty
PolicyDirs == UNION {[ids -> PolicyFileContents] : ids \in (SUBSET PolicyIds) \ {{}}}

GeneratorInit ==
    /\ store \in {[pc |-> "files", files |-> fs, hashes |-> AbsentCsv, rows |-> AbsentParquet, last |-> "other", result |-> "unread"] :
                    fs \in PolicyDirs}
    /\ NoScoring
    /\ link = NoLink
    /\ motion = NoMotion
    /\ align = NoAlign
    /\ report = NoReport
    /\ duck_core = NoReload

\* a policy file is added
AddPolicy(id, content) ==
    /\ store.pc = "files"
    /\ id \notin DOMAIN store.files
    /\ store' = [store EXCEPT
            !.files = [i \in (DOMAIN store.files) \cup {id} |-> IF i = id THEN content ELSE store.files[i]],
            !.last = "other", !.result = "unread"]
    /\ UNCHANGED <<scoreVars, link, motion, align, report, duck_core>>

\* the links of a policy file are edited
EditPolicy(id, links) ==
    /\ store.pc = "files"
    /\ id \in DOMAIN store.files
    /\ links # store.files[id].links
    /\ store' = [store EXCEPT !.files[id].links = links, !.last = "other", !.result = "unread"]
    /\ UNCHANGED <<scoreVars, link, motion, align, report, duck_core>>

\* only the notes of the links of a policy file are edited
EditNotes(id, notes) ==
    /\ store.pc = "files"
    /\ id \in DOMAIN store.files
    /\ notes # store.files[id].notes
    /\ store' = [store EXCEPT
            !.files[id].notes = notes,
            !.last = IF store.last \in {"wholesale", "notes"} THEN "notes" ELSE store.last,
            !.result = "unread"]
    /\ UNCHANGED <<scoreVars, link, motion, align, report, duck_core>>

\* a policy file is deleted
DeletePolicy(id) ==
    /\ store.pc = "files"
    /\ id \in DOMAIN store.files
    /\ DOMAIN store.files # {id}
    /\ store' = [store EXCEPT
            !.files = [i \in (DOMAIN store.files) \ {id} |-> store.files[i]],
            !.last = "other", !.result = "unread"]
    /\ UNCHANGED <<scoreVars, link, motion, align, report, duck_core>>

\* generate_voting_records_for_chamber, a run that completes: pd.concat
\* raises on no data frames, and an incremental run reads the stored rows
GenerateVotingRecords(policy_id, person_id) ==
    /\ store.pc = "files"
    /\ person_ids(store.files, policy_id, person_id) # {}
    /\ (person_id # NoId \/ policy_id # NoId) => store.rows.exists
    /\ store' = [store EXCEPT
            !.rows = generated_rows(store.rows, store.files, policy_id, person_id),
            !.hashes = update_policies_hash(store.hashes, store.files, policy_id),
            !.last = IF person_id = NoId /\ policy_id = NoId THEN "wholesale" ELSE "other",
            !.result = "unread"]
    /\ UNCHANGED <<scoreVars, link, motion, align, report, duck_core>>

\* check_policy_hash()
CheckPolicyHash ==
    /\ store.pc = "files"
    /\ store.result = "unread"
    /\ store' = [store EXCEPT !.result = check_policy_hash(store.hashes, store.files)]
    /\ UNCHANGED <<scoreVars, link, motion, align, report, duck_core>>

GeneratorNext ==
    \/ \E id \in PolicyIds, content \in PolicyFileContents : AddPolicy(id, content)
    \/ \E id \in PolicyIds, links \in {{"d1"}, {"d1", "d2"}} : EditPolicy(id, links)
    \/ \E id \in PolicyIds, notes \in {"", "checked"} : EditNotes(id, notes)
    \/ \E id \in PolicyIds : DeletePolicy(id)
    \/ \E policy_id \in PolicyIds \cup {NoId}, person_id \in PersonIds \cup {NoId} : GenerateVotingRecords(policy_id, person_id)
    \/ CheckPolicyHash

SpecGenerator == GeneratorInit /\ [][GeneratorNext]_vars

\* C23: immediately after generate_voting_records_for_chamber completes a
\* wholesale regeneration, check_policy_hash() returns True, whatever
\* additions, edits, deletions of policy files and earlier regenerations
\* came before; editing only the notes of a link afterwards keeps it True.
C23_UpToDateAfterWholesale ==
    (store.pc = "files" /\ store.last \in {"wholesale", "notes"} /\ store.result # "unread") =>
        store.result = "True"

\* the rows a wholesale regeneration from the current files would write
WholesaleRows == generated_rows(AbsentParquet, store.files, NoId, NoId)

\* C29: whenever check_policy_hash() returns True, the stored
\* person_policies rows are those a wholesale regeneration from the current
\* policy files and vote data would produce, after any policy edits and
\* wholesale or incremental runs; an incremental run never leaves stale
\* rows behind while marking the hashes up to date.
C29_TrueMeansRowsCurrent ==
    (store.pc = "files" /\ store.result = "True") => store.rows = WholesaleRows

====
